---- MODULE Spec2Model ----
(***************************************************************************)
(* Model of the SPLITT receipt OCR parser (class ReceiptParser of          *)
(* src/combined.js, lines 950-1546).                                       *)
(*                                                                         *)
(* Representation.                                                         *)
(*  - A JavaScript string is a TLA+ string; Ch(s,i) is its i-th character  *)
(*    (1-based) and SubSeq(s,i,j) a substring.  Only ASCII characters are  *)
(*    used: of the currency class [$ euro pound] only "$" is modelled and  *)
(*    of the quantity class [@ x times *] the times sign is left out.      *)
(*  - A JavaScript number is a double.  The double nearest to a decimal   *)
(*    fraction is held as that fraction, the record                       *)
(*    [num |-> n, den |-> 10^k] with k as small as possible (Norm), so     *)
(*    12.5 is [num |-> 125, den |-> 10]: this is what parseFloat returns   *)
(*    and what the number prints as.  NaN is [num |-> 0, den |-> 0].       *)
(*    The result of an arithmetic operation is computed on the doubles    *)
(*    (ToDouble, DAdd, DSub, DMul, DDivInt) and is held as the double     *)
(*    [neg, m, e] when it is not the double nearest to a short fraction.  *)
(*  - A regular expression is a list of alternatives, each a list of       *)
(*    quantified character classes (atoms); Match runs the backtracking    *)
(*    search in the priority order of the ECMAScript matcher (earlier      *)
(*    alternative first, greedy atoms longest first, lazy atoms shortest   *)
(*    first) and returns the first match.                                  *)
(***************************************************************************)
EXTENDS Integers, Sequences, FiniteSets, TLC

VARIABLES
  pc,          \* the position of the call in progress
  input,       \* the argument the operation was called with
  output,      \* what the operation has computed so far, then its result
  classified   \* what a loop has set aside so far, turn by turn: the
               \* ClassifiedLine of each line, the group of each merge,
               \* the saves made to localStorage; for parseReceiptText
               \* the time zone the process runs in

vars == <<pc, input, output, classified>>

----------------------------------------------------------------------------
(* Characters and strings *)

Ch(s, i) == SubSeq(s, i, i)

LowerAlpha == "abcdefghijklmnopqrstuvwxyz"
UpperAlpha == "ABCDEFGHIJKLMNOPQRSTUVWXYZ"
DigitAlpha == "0123456789"

CharsOf(s) == {Ch(s, i) : i \in 1..Len(s)}

LowerChars == CharsOf(LowerAlpha)
UpperChars == CharsOf(UpperAlpha)
DigitChars == CharsOf(DigitAlpha)
\* \w
WordChars == LowerChars \cup UpperChars \cup DigitChars \cup {"_"}
\* \s (the white space the model's inputs can hold)
SpaceChars == {" ", "\t", "\n", "\r"}
\* [$ euro pound]
CurrencyChars == {"$"}

IndexIn(alpha, c) == CHOOSE i \in 1..Len(alpha) : Ch(alpha, i) = c

\* String.prototype.toLowerCase / toUpperCase on one character
LowerCh(c) == IF c \in UpperChars THEN Ch(LowerAlpha, IndexIn(UpperAlpha, c)) ELSE c
UpperCh(c) == IF c \in LowerChars THEN Ch(UpperAlpha, IndexIn(LowerAlpha, c)) ELSE c

MinOf(S) == CHOOSE x \in S : \A y \in S : x <= y
MaxOf(S) == CHOOSE x \in S : \A y \in S : x >= y

\* parts.join('') : the strings parts[lo..hi] concatenated (by halves, to
\* keep the evaluation shallow)
RECURSIVE JoinRange(_, _, _)
JoinRange(parts, lo, hi) ==
  IF lo > hi THEN ""
  ELSE IF lo = hi THEN parts[lo]
  ELSE JoinRange(parts, lo, (lo + hi) \div 2) \o JoinRange(parts, (lo + hi) \div 2 + 1, hi)

join(parts) == JoinRange(parts, 1, Len(parts))

toLowerCase(s) == join([i \in 1..Len(s) |-> LowerCh(Ch(s, i))])

DigitVal(c) == IndexIn(DigitAlpha, c) - 1

\* String.prototype.trim
trim(s) ==
  LET kept == {i \in 1..Len(s) : Ch(s, i) \notin SpaceChars}
  IN IF kept = {} THEN "" ELSE SubSeq(s, MinOf(kept), MaxOf(kept))

\* s.replace(/[cls]/g, '') : every character of the class removed
RemoveChars(s, cls) == join([i \in 1..Len(s) |-> IF Ch(s, i) \in cls THEN "" ELSE Ch(s, i)])

\* s.split(/[seps]/) : the parts between separator characters
split(s, seps) ==
  LET at == {i \in 1..Len(s) : Ch(s, i) \in seps}
      \* the k-th separator position; 0 before the first, Len(s)+1 after the last
      sep(k) == IF k = 0 THEN 0
                ELSE IF k > Cardinality(at) THEN Len(s) + 1
                ELSE CHOOSE i \in at : Cardinality({j \in at : j < i}) = k - 1
  IN [k \in 1..(Cardinality(at) + 1) |-> SubSeq(s, sep(k - 1) + 1, sep(k) - 1)]

----------------------------------------------------------------------------
(* Numbers: decimal fractions *)

\* NaN: the one value with denominator 0
NaN == [num |-> 0, den |-> 0]

RECURSIVE Pow10(_)
Pow10(k) == IF k = 0 THEN 1 ELSE 10 * Pow10(k - 1)

RECURSIVE Norm(_)
Norm(x) ==
  IF x.den > 1 /\ x.num % 10 = 0
  THEN Norm([num |-> x.num \div 10, den |-> x.den \div 10])
  ELSE x

Dec(n, d) == Norm([num |-> n, den |-> d])
Zero == Dec(0, 1)

MaxDen(x, y) == IF x.den >= y.den THEN x.den ELSE y.den
OnDen(x, d) == x.num * (d \div x.den)

\* sum, difference and product of decimal fractions in exact arithmetic:
\* the arithmetic of the properties stated below, not that of the program
Add(x, y) == Dec(OnDen(x, MaxDen(x, y)) + OnDen(y, MaxDen(x, y)), MaxDen(x, y))
Sub(x, y) == Dec(OnDen(x, MaxDen(x, y)) - OnDen(y, MaxDen(x, y)), MaxDen(x, y))
Mul(x, y) == Dec(x.num * y.num, x.den * y.den)
Leq(x, y) == OnDen(x, MaxDen(x, y)) <= OnDen(y, MaxDen(x, y))
Lt(x, y) == OnDen(x, MaxDen(x, y)) < OnDen(y, MaxDen(x, y))
Abs(x) == IF x.num < 0 THEN [num |-> 0 - x.num, den |-> x.den] ELSE x
IsNum(x) == x # NaN

\* the value of a string of decimal digits ("" is 0)
RECURSIVE DigitsVal(_)
DigitsVal(ds) ==
  IF ds = "" THEN 0
  ELSE 10 * DigitsVal(SubSeq(ds, 1, Len(ds) - 1)) + DigitVal(Ch(ds, Len(ds)))

\* the longest prefix of s made of decimal digits
DigitPrefix(s) ==
  LET stops == {i \in 1..Len(s) : Ch(s, i) \notin DigitChars}
  IN IF stops = {} THEN s ELSE SubSeq(s, 1, MinOf(stops) - 1)

(* parseFloat: the longest prefix of the trimmed string that is a decimal  *)
(* literal [+-]? digits [. digits]? with at least one digit; NaN when      *)
(* there is none.  Exponents and "Infinity" are not modelled: no input of   *)
(* the model has a digit followed by e or E, nor the word Infinity.        *)
\* the digits after the decimal point, "" when what follows the integer
\* part does not start with a point
FractionDigits(afterInt) ==
  IF afterInt # "" /\ Head(afterInt) = "." THEN DigitPrefix(Tail(afterInt)) ELSE ""

\* the number with integer digits ip and fraction digits fp
LiteralValue(negative, ip, fp) ==
  IF ip = "" /\ fp = "" THEN NaN
  ELSE Dec(IF negative THEN 0 - DigitsVal(ip \o fp) ELSE DigitsVal(ip \o fp), Pow10(Len(fp)))

\* the literal at the start of body, whose integer digits are ip
LiteralAfterInt(negative, body, ip) ==
  LiteralValue(negative, ip, FractionDigits(SubSeq(body, Len(ip) + 1, Len(body))))

UnsignedLiteral(negative, body) == LiteralAfterInt(negative, body, DigitPrefix(body))

SignedLiteral(s) ==
  IF s # "" /\ Head(s) \in {"+", "-"} THEN UnsignedLiteral(Head(s) = "-", Tail(s))
  ELSE UnsignedLiteral(FALSE, s)

parseFloat(str) == SignedLiteral(trim(str))

----------------------------------------------------------------------------
(* Price Normalizer *)

\* isNaN(value) ? 0 : value
NumberOrZero(value) == IF value = NaN THEN Zero ELSE value

\* the separators of a price decided with a lone separator always read as
\* the decimal point
DecideSeparatorsAlwaysDecimal(clean0, parts) ==
  IF Len(parts) > 2
  THEN JoinRange(parts, 1, Len(parts) - 1) \o "." \o parts[Len(parts)]
  ELSE IF Len(parts) = 2 THEN parts[1] \o "." \o parts[2]
  ELSE clean0

\* parsePrice with a lone separator always read as the decimal point
parsePriceAlwaysDecimal(priceStr) ==
  IF priceStr = "" THEN Zero
  ELSE NumberOrZero(parseFloat(
         DecideSeparatorsAlwaysDecimal(
           RemoveChars(priceStr, CurrencyChars \cup SpaceChars),
           split(RemoveChars(priceStr, CurrencyChars \cup SpaceChars), {".", ","}))))

\* parsePrice as the repository's other parser file has it: commas dropped
parsePriceDropCommas(priceStr) ==
  IF priceStr = "" THEN Zero
  ELSE NumberOrZero(parseFloat(RemoveChars(priceStr, CurrencyChars \cup SpaceChars \cup {","})))

\* the cleaned string clean0, cut into parts at its separators, with the
\* separators decided: the last of several is the decimal point, a lone one
\* is the decimal point unless more than two digits follow it
DecideSeparators(clean0, parts) ==
  IF Len(parts) > 2
  THEN JoinRange(parts, 1, Len(parts) - 1) \o "." \o parts[Len(parts)]
  ELSE IF Len(parts) = 2
  THEN (IF Len(parts[2]) = 2 THEN parts[1] \o "." \o parts[2]
        ELSE IF Len(parts[2]) = 1 THEN parts[1] \o "." \o parts[2] \o "0"
        ELSE IF Len(parts[2]) > 2 THEN parts[1] \o parts[2]
        ELSE parts[1] \o "." \o parts[2])
  ELSE clean0

parsePrice(priceStr) ==
  IF priceStr = "" THEN Zero
  ELSE NumberOrZero(parseFloat(
         DecideSeparators(
           RemoveChars(priceStr, CurrencyChars \cup SpaceChars),
           split(RemoveChars(priceStr, CurrencyChars \cup SpaceChars), {".", ","}))))


----------------------------------------------------------------------------
(* Regular expressions                                                     *)
(*                                                                         *)
(* An atom is a character class with a quantifier {min,max} (max < 0: no   *)
(* upper limit), greedy or lazy; neg marks a negated class.  A pattern is  *)
(* a sequence of alternatives, each a sequence of atoms.  MatchAtoms       *)
(* returns the first match in backtracking order: [ok, ends], ends[i] the  *)
(* position after atom i.                                                  *)

Atom(cls, lo, hi) == [cls |-> cls, neg |-> FALSE, min |-> lo, max |-> hi, lazy |-> FALSE]
One(cls) == Atom(cls, 1, 1)
Opt(cls) == Atom(cls, 0, 1)
Star(cls) == Atom(cls, 0, -1)
Plus(cls) == Atom(cls, 1, -1)
\* .+?  (the dot matches everything but line terminators)
AnyPlusLazy == [cls |-> {"\n", "\r"}, neg |-> TRUE, min |-> 1, max |-> -1, lazy |-> TRUE]

Accepts(a, c) == (c \in a.cls) # a.neg

\* a literal, matched case-insensitively (the i flag)
LitI(str) == [i \in 1..Len(str) |-> One({LowerCh(Ch(str, i)), UpperCh(Ch(str, i))})]

NoMatch == [ok |-> FALSE, ends |-> <<>>]

\* how many characters from pos on the atom can take
RunLen(s, pos, a) ==
  LET room == Len(s) - pos + 1
      cap == IF a.max < 0 \/ a.max > room THEN room ELSE a.max
      stops == {n \in 0..(cap - 1) : ~Accepts(a, Ch(s, pos + n))}
  IN IF stops = {} THEN cap ELSE MinOf(stops)

(* Atom i takes c characters, for the first c in its order of preference   *)
(* (greedy: longest first, lazy: shortest first) with which the atoms      *)
(* after it match.  Every c is tried (tries), and the preferred one among  *)
(* those that succeed is the one the backtracking search finds first.      *)
RECURSIVE MatchAtoms(_, _, _, _, _)
MatchAtoms(atoms, s, i, pos, toEnd) ==
  IF i > Len(atoms)
  THEN (IF toEnd /\ pos # Len(s) + 1 THEN NoMatch ELSE [ok |-> TRUE, ends |-> <<>>])
  ELSE LET r == RunLen(s, pos, atoms[i])
           tries == {<<c, MatchAtoms(atoms, s, i + 1, pos + c, toEnd)>> : c \in atoms[i].min..r}
           good == {t \in tries : t[2].ok}
           first == IF atoms[i].lazy
                    THEN CHOOSE t \in good : \A u \in good : t[1] <= u[1]
                    ELSE CHOOSE t \in good : \A u \in good : t[1] >= u[1]
       IN IF good = {} THEN NoMatch
          ELSE [ok |-> TRUE, ends |-> <<pos + first[1]>> \o first[2].ends]

\* the first alternative (in order, from index k) that matches at pos
RECURSIVE MatchAlts(_, _, _, _, _)
MatchAlts(alts, s, pos, toEnd, k) ==
  IF k > Len(alts) THEN [ok |-> FALSE, alt |-> 0, from |-> pos, ends |-> <<>>]
  ELSE LET m == MatchAtoms(alts[k], s, 1, pos, toEnd)
       IN IF m.ok THEN [ok |-> TRUE, alt |-> k, from |-> pos, ends |-> m.ends]
          ELSE MatchAlts(alts, s, pos, toEnd, k + 1)

\* a pattern anchored at the start (^...) and, with toEnd, at the end (...$)
MatchStart(alts, s, toEnd) == MatchAlts(alts, s, 1, toEnd, 1)

\* an unanchored pattern: the leftmost position, from pos on, where it matches
Search(alts, s, pos) ==
  LET hits == {p \in pos..(Len(s) + 1) : MatchAlts(alts, s, p, FALSE, 1).ok}
  IN IF hits = {} THEN [ok |-> FALSE, alt |-> 0, from |-> pos, ends |-> <<>>]
     ELSE MatchAlts(alts, s, MinOf(hits), FALSE, 1)

\* the text matched by atoms a..b of match m
Group(m, s, a, b) ==
  SubSeq(s, IF a = 1 THEN m.from ELSE m.ends[a - 1], m.ends[b] - 1)

MatchEnd(m) == IF m.ends = <<>> THEN m.from ELSE m.ends[Len(m.ends)]

\* every alternative followed by the same tail
WithTail(labels, tail) == [k \in 1..Len(labels) |-> labels[k] \o tail]

----------------------------------------------------------------------------
(* this.patterns *)

DigitSepChars == DigitChars \cup {",", "."}
\* [$ euro pound]?(\d[\d,\.]+)
AmountTail == <<Opt(CurrencyChars), One(DigitChars), Plus(DigitSepChars)>>
\* [:\s]*[$ euro pound]?(\d[\d,\.]+)
LabelTail == <<Star({":"} \cup SpaceChars)>> \o AmountTail
\* [@x times \*] under the i flag
TimesChars == {"@", "x", "X", "*"}

dottedItem ==
  << <<AnyPlusLazy, Atom({".", "-", "_"} \cup SpaceChars, 3, -1), Star(SpaceChars)>>
     \o AmountTail >>

itemLineTail ==
  <<AnyPlusLazy, Plus(SpaceChars)>> \o AmountTail \o <<Star(SpaceChars)>>

itemLine ==
  << <<Plus(DigitChars), Star(SpaceChars), One(TimesChars), Star(SpaceChars)>> \o itemLineTail,
     itemLineTail >>

subtotalPattern ==
  WithTail(<< LitI("sub") \o <<Opt({"-"} \cup SpaceChars)>> \o LitI("total"),
              LitI("subttl"),
              LitI("before") \o <<Star(SpaceChars)>> \o LitI("tax"),
              LitI("net"),
              LitI("pre") \o <<Opt({"-"} \cup SpaceChars)>> \o LitI("tax") >>,
           LabelTail)

taxPattern ==
  WithTail(<< LitI("tax"), LitI("vat"), LitI("gst"), LitI("hst"),
              LitI("sales") \o <<Star(SpaceChars)>> \o LitI("tax") >>,
           <<Star(SpaceChars), Opt({"("}), Star(DigitChars), Star({"%", ")"} \cup SpaceChars)>>
           \o LabelTail)

tipPattern ==
  WithTail(<< LitI("tip"), LitI("gratuity"),
              LitI("service") \o <<Star(SpaceChars)>> \o LitI("charge") >>,
           LabelTail)

totalPattern ==
  WithTail(<< LitI("total"),
              LitI("amount") \o <<Star(SpaceChars)>> \o LitI("due"),
              LitI("balance") \o <<Star(SpaceChars)>> \o LitI("due"),
              LitI("grand") \o <<Star(SpaceChars)>> \o LitI("total") >>,
           LabelTail)

quantityPattern ==
  << <<Plus(DigitChars), Star(SpaceChars), One(TimesChars), Star(SpaceChars)>>,
     <<Opt({"@"}), Star(SpaceChars), Plus(DigitChars), Star(SpaceChars),
       Opt({":", "-"}), Star(SpaceChars)>>,
     LitI("qty") \o <<Star({":"} \cup SpaceChars), Plus(DigitChars)>> >>

skipPattern ==
  << LitI("receipt"), LitI("invoice"), LitI("order"), LitI("ticket"), LitI("cashier"),
     LitI("server"), LitI("table"), LitI("guest"), LitI("thank"), LitI("call"),
     LitI("visit"), LitI("www."), LitI("http"), LitI("tel"), LitI("phone"),
     LitI("fax"), LitI("email"),
     LitI("date") \o <<Star(SpaceChars), One({":"})>> >>

\* the amount captured by a summary pattern: its last two atoms
SummaryAmount(m, s) == Group(m, s, Len(m.ends) - 1, Len(m.ends))

----------------------------------------------------------------------------
(* Quantity Extractor / Name Cleaner *)

parseInt(digits) == DigitsVal(DigitPrefix(digits))

\* parseInt(match[1] || match[2] || match[3], 10) : the digits of the
\* alternative that matched, 1 without a match
QuantityOfMatch(match, text) ==
  IF ~match.ok THEN 1
  ELSE IF match.alt = 1 THEN parseInt(Group(match, text, 1, 1))
  ELSE IF match.alt = 2 THEN parseInt(Group(match, text, 3, 3))
  ELSE parseInt(Group(match, text, 5, 5))

extractQuantity(text) ==
  IF text = "" THEN 1
  ELSE QuantityOfMatch(MatchStart(quantityPattern, text, FALSE), text)

\* s without the text of match m
AfterMatch(m, s) == IF m.ok THEN SubSeq(s, MatchEnd(m), Len(s)) ELSE s

\* name.replace(/^.../, '') : the matched prefix removed
StripPrefix(alts, s) == AfterMatch(MatchStart(alts, s, FALSE), s)

\* the three replacements made when the quantity is above 1
StripQuantity(cleaned) ==
  StripPrefix(<< <<Plus(DigitChars), Plus(SpaceChars)>> >>,
    StripPrefix(<< LitI("qty") \o <<Star({":"} \cup SpaceChars),
                                     Plus(DigitChars), Star(SpaceChars)>> >>,
      StripPrefix(<< <<Plus(DigitChars), Star(SpaceChars),
                       One(TimesChars \cup {":"}), Star(SpaceChars)>> >>, cleaned)))

\* from the name with its leading @ removed
RemoveQuantity(cleaned, quantity) ==
  trim(IF quantity > 1 THEN StripQuantity(cleaned) ELSE cleaned)

removeQuantityFromName(name, quantity) ==
  RemoveQuantity(StripPrefix(<< <<One({"@"}), Star(SpaceChars)>> >>, name), quantity)

\* .replace(/\s+/g, ' ') : a run of white space becomes one space
CollapseSpaces(s) ==
  join([i \in 1..Len(s) |->
          IF Ch(s, i) \notin SpaceChars THEN Ch(s, i)
          ELSE IF i = 1 \/ Ch(s, i - 1) \notin SpaceChars THEN " "
          ELSE ""])

\* .replace(/^[\s\-]+|[\s\-]+$/g, '')
StripEdgeDashes(s) ==
  LET kept == {i \in 1..Len(s) : Ch(s, i) \notin SpaceChars \cup {"-"}}
  IN IF kept = {} THEN "" ELSE SubSeq(s, MinOf(kept), MaxOf(kept))

\* .replace(/\b\w/g, c => c.toUpperCase())
TitleCase(s) ==
  join([i \in 1..Len(s) |->
          IF Ch(s, i) \in WordChars /\ (i = 1 \/ Ch(s, i - 1) \notin WordChars)
          THEN UpperCh(Ch(s, i)) ELSE Ch(s, i)])

cleanItemName(name) ==
  TitleCase(toLowerCase(trim(StripEdgeDashes(CollapseSpaces(name)))))

invalidWords ==
  {"total", "subtotal", "tax", "tip", "change", "cash", "credit", "debit", "card",
   "payment", "balance", "amount", "due", "check", "bill", "date"}

streetWords ==
  << LitI("main"), LitI("street"), LitI("st"), LitI("ave"), LitI("avenue"),
     LitI("blvd"), LitI("boulevard"), LitI("road"), LitI("rd"), LitI("drive"),
     LitI("dr"), LitI("lane"), LitI("ln"), LitI("way"), LitI("court"), LitI("ct") >>

orderWords ==
  << LitI("order"), LitI("ticket"), LitI("table"), LitI("check"), LitI("receipt") >>

\* /^[\d\W]+$/ : [\d\W] is everything but letters and the underscore
OnlyDigitsAndPunct(name) ==
  MatchStart(<< <<[cls |-> LowerChars \cup UpperChars \cup {"_"}, neg |-> TRUE,
                   min |-> 1, max |-> -1, lazy |-> FALSE]>> >>, name, TRUE).ok

isValidItemName(name) ==
  IF name = "" \/ Len(name) < 2 THEN FALSE
  ELSE IF OnlyDigitsAndPunct(name) THEN FALSE
  ELSE IF toLowerCase(trim(name)) \in invalidWords THEN FALSE
  ELSE IF MatchStart([k \in 1..Len(streetWords) |->
                        <<Plus(DigitChars), Plus(SpaceChars)>> \o streetWords[k]],
                     name, FALSE).ok THEN FALSE
  ELSE IF MatchStart(WithTail(streetWords, <<Plus(SpaceChars), Plus(DigitChars)>>),
                     name, TRUE).ok THEN FALSE
  ELSE IF MatchStart(WithTail(orderWords,
                              <<Star(SpaceChars), Opt({"#"}), Star(SpaceChars), Plus(DigitChars)>>),
                     name, FALSE).ok THEN FALSE
  ELSE TRUE

\* /^(main|street|...)\b/i : a street word followed by a word boundary
StartsWithStreetWord(name) ==
  \E k \in 1..Len(streetWords) :
    LET m == MatchAtoms(streetWords[k], name, 1, 1, FALSE)
        e == Len(streetWords[k]) + 1
    IN m.ok /\ (e > Len(name) \/ Ch(name, e) \notin WordChars)

\* name.includes(sub)
includes(s, sub) ==
  \E i \in 1..(Len(s) - Len(sub) + 1) : SubSeq(s, i, i + Len(sub) - 1) = sub

----------------------------------------------------------------------------
(* patterns.price, unanchored:                                             *)
(*   [$]?\s*(\d{1,3}(?:[,\.]\d{3})*|\d+)(?:[\.,](\d{2}))?                  *)
(* Everything after the first digit is optional, so the first alternative  *)
(* always succeeds with its greedy choices and nothing backtracks.         *)

IsDigitAt(s, i) == i >= 1 /\ i <= Len(s) /\ Ch(s, i) \in DigitChars
IsSepAt(s, i) == i >= 1 /\ i <= Len(s) /\ Ch(s, i) \in {",", "."}

\* (?:[,\.]\d{3})* from position pos: the position after the last group
RECURSIVE ThousandsGroups(_, _)
ThousandsGroups(s, pos) ==
  IF IsSepAt(s, pos) /\ IsDigitAt(s, pos + 1) /\ IsDigitAt(s, pos + 2) /\ IsDigitAt(s, pos + 3)
  THEN ThousandsGroups(s, pos + 4)
  ELSE pos

\* \d{1,3} from the first digit d0: the position after it
LeadDigits(s, d0) == d0 + RunLen(s, d0, Atom(DigitChars, 1, 3))

\* (?:[\.,](\d{2}))? from position g: the position after it
DecimalsEnd(s, g) ==
  IF IsSepAt(s, g) /\ IsDigitAt(s, g + 1) /\ IsDigitAt(s, g + 2) THEN g + 3 ELSE g

\* the whole match, from the match m of its start up to the first digit
PriceMatch(m, s) ==
  IF m.ok
  THEN [ok |-> TRUE, from |-> m.from,
        to |-> DecimalsEnd(s, ThousandsGroups(s, LeadDigits(s, m.ends[2])))]
  ELSE [ok |-> FALSE, from |-> 0, to |-> 0]

\* [ok, from, to]: the match is SubSeq(s, from, to - 1)
pricePattern(s) ==
  PriceMatch(Search(<< <<Opt(CurrencyChars), Star(SpaceChars), One(DigitChars)>> >>, s, 1), s)

----------------------------------------------------------------------------
(* Line Classifier *)

Unknown == [type |-> "unknown", data |-> <<>>]
Item(name, price, quantity, confidence) ==
  [type |-> "item",
   data |-> [name |-> name, price |-> price, quantity |-> quantity, confidence |-> confidence]]
SummaryLine(kind, amount) == [type |-> kind, data |-> [amount |-> amount]]

IsPositive(x) == x.num > 0

\* first, unless it is Unknown: the rules are tried in order and the first
\* that returns decides
OrElse(first, second) == IF first.type # "unknown" THEN first ELSE second

\* an item whose quantity is read from its name
NamedItem(name, price, quantity, confidence) ==
  Item(removeQuantityFromName(name, quantity), price, quantity, confidence)

DottedItem(name, price) ==
  IF IsPositive(price) /\ isValidItemName(name)
  THEN NamedItem(name, price, extractQuantity(name), Dec(92, 100))
  ELSE Unknown

DottedMatch(m, line) ==
  IF m.ok THEN DottedItem(trim(Group(m, line, 1, 1)), parsePrice(Group(m, line, 5, 6)))
  ELSE Unknown

\* the dotted-item rule: an item, or Unknown when the rule does not decide
dottedRule(line) == DottedMatch(MatchStart(dottedItem, line, FALSE), line)

\* one summary rule: the label's pattern matched, else what follows it
SummaryOr(kind, m, line, otherwise) ==
  IF m.ok THEN SummaryLine(kind, parsePrice(SummaryAmount(m, line))) ELSE otherwise

\* the summary rules, in the order tax, tip, total, subtotal
summaryRule(line) ==
  SummaryOr("tax", MatchStart(taxPattern, line, FALSE), line,
    SummaryOr("tip", MatchStart(tipPattern, line, FALSE), line,
      SummaryOr("total", MatchStart(totalPattern, line, FALSE), line,
        SummaryOr("subtotal", MatchStart(subtotalPattern, line, FALSE), line, Unknown))))

\* qty stands for the captured quantity, 0 when the group did not take part
StandardConfidence(line, qty) ==
  IF includes(line, "...") \/ includes(line, "---") THEN Dec(90, 100)
  ELSE IF qty # 0 THEN Dec(95, 100)
  ELSE Dec(85, 100)

StandardItem(line, qty, name, price, extractedQty) ==
  IF IsPositive(price) /\ isValidItemName(name)
  THEN Item(name, price, extractedQty, StandardConfidence(line, qty))
  ELSE Unknown

StandardNamed(line, qty, rawName, price, extractedQty) ==
  StandardItem(line, qty, removeQuantityFromName(rawName, extractedQty), price, extractedQty)

StandardParts(line, qty, rawName, price) ==
  StandardNamed(line, qty, rawName, price,
                IF qty # 0 THEN qty ELSE extractQuantity(rawName))

StandardMatch(m, line) ==
  LET off == IF m.alt = 1 THEN 4 ELSE 0
  IN IF m.ok
     THEN StandardParts(line,
                        IF m.alt = 1 THEN parseInt(Group(m, line, 1, 1)) ELSE 0,
                        trim(Group(m, line, off + 1, off + 1)),
                        parsePrice(Group(m, line, off + 4, off + 5)))
     ELSE Unknown

\* the standard item rule
standardRule(line) == StandardMatch(MatchStart(itemLine, line, TRUE), line)

FallbackItem(name, price) ==
  IF IsPositive(price) /\ isValidItemName(name) /\ Len(name) > 2
     /\ ~(Leq(Dec(100, 1), price) /\ Leq(price, Dec(99999, 1)) /\ StartsWithStreetWord(name))
  THEN NamedItem(name, price, extractQuantity(name), Dec(70, 100))
  ELSE Unknown

FallbackMatch(m, line) ==
  IF m.ok
  THEN FallbackItem(trim(SubSeq(line, 1, m.from - 1) \o SubSeq(line, m.to, Len(line))),
                    parsePrice(SubSeq(line, m.from, m.to - 1)))
  ELSE Unknown

\* the trailing-price fallback
fallbackRule(line) == FallbackMatch(pricePattern(line), line)

categorizeLine(line) ==
  OrElse(dottedRule(line),
    OrElse(summaryRule(line),
      OrElse(standardRule(line), fallbackRule(line))))

----------------------------------------------------------------------------
(* Preprocessor *)

(* .replace(/\r\n/g, '\n').replace(/\r/g, '\n').split('\n') : the text is  *)
(* cut at every line break, a line break being "\r\n", a lone "\r" or a    *)
(* lone "\n".                                                              *)
splitLines(text) ==
  LET at == {i \in 1..Len(text) :
               \/ Ch(text, i) = "\r"
               \/ Ch(text, i) = "\n" /\ (i = 1 \/ Ch(text, i - 1) # "\r")}
      brk(k) == CHOOSE i \in at : Cardinality({j \in at : j < i}) = k - 1
      \* where line k starts and where it ends
      from(k) == IF k = 1 THEN 1
                 ELSE IF Ch(text, brk(k - 1)) = "\r" /\ brk(k - 1) < Len(text)
                         /\ Ch(text, brk(k - 1) + 1) = "\n"
                 THEN brk(k - 1) + 2
                 ELSE brk(k - 1) + 1
      to(k) == IF k > Cardinality(at) THEN Len(text) ELSE brk(k) - 1
  IN [k \in 1..(Cardinality(at) + 1) |-> SubSeq(text, from(k), to(k))]

IsSkipLine(line) == MatchStart(skipPattern, line, FALSE).ok
KeepLine(line) == Len(line) > 0 /\ ~IsSkipLine(line)
NonEmptyLine(line) == Len(line) > 0

\* .map(line => line.trim())
TrimmedLines(text) == [k \in 1..Len(splitLines(text)) |-> trim(splitLines(text)[k])]

preprocessText(text) == SelectSeq(TrimmedLines(text), KeepLine)

----------------------------------------------------------------------------
(* Item extraction and Summary Aggregator *)

\* what one line adds to the items: items.push({...}) for a line of type item
PushItem(categorized, line) ==
  IF categorized.type = "item"
  THEN << [name |-> cleanItemName(categorized.data.name),
           price |-> categorized.data.price,
           quantity |-> IF categorized.data.quantity = 0 THEN 1
                        ELSE categorized.data.quantity,
           raw |-> line,
           confidence |-> categorized.data.confidence] >>
  ELSE <<>>

RECURSIVE extractItems(_)
extractItems(lines) ==
  IF lines = <<>> THEN <<>>
  ELSE PushItem(categorizeLine(Head(lines)), Head(lines)) \o extractItems(Tail(lines))

emptySummary == [tax |-> Zero, tip |-> Zero, total |-> Zero, subtotal |-> Zero]

\* the switch with the first occurrence of a kind kept
summaryStepKeepFirst(summary, categorized) ==
  IF categorized.type \in {"tax", "tip", "total", "subtotal"}
     /\ summary[categorized.type] = Zero
  THEN [summary EXCEPT ![categorized.type] = categorized.data.amount]
  ELSE summary

\* one turn of the loop of extractSummary: the switch on the line's type
summaryStep(summary, categorized) ==
  IF categorized.type \in {"tax", "tip", "total", "subtotal"}
  THEN [summary EXCEPT ![categorized.type] = categorized.data.amount]
  ELSE summary

\* the loop of extractSummary over the lines, from the summary so far
RECURSIVE foldSummary(_, _)
foldSummary(summary, lines) ==
  IF lines = <<>> THEN summary
  ELSE foldSummary(summaryStep(summary, categorizeLine(Head(lines))), Tail(lines))

----------------------------------------------------------------------------
(* Metadata Extractor *)

DateSepChars == {"/", "-", "."}

monthNames ==
  << LitI("Jan"), LitI("Feb"), LitI("Mar"), LitI("Apr"), LitI("May"), LitI("Jun"),
     LitI("Jul"), LitI("Aug"), LitI("Sep"), LitI("Oct"), LitI("Nov"), LitI("Dec") >>

datePattern ==
  << <<Atom(DigitChars, 1, 2), One(DateSepChars), Atom(DigitChars, 1, 2),
       One(DateSepChars), Atom(DigitChars, 2, 4)>>,
     <<Atom(DigitChars, 4, 4), One(DateSepChars), Atom(DigitChars, 1, 2),
       One(DateSepChars), Atom(DigitChars, 1, 2)>> >>
  \o WithTail(monthNames,
              <<Star(LowerChars \cup UpperChars), Opt({"."}), Star(SpaceChars),
                Atom(DigitChars, 1, 2), Opt({","}), Star(SpaceChars),
                Atom(DigitChars, 4, 4)>>)

\* ^[A-Z][A-Za-z0-9\s&'\-]+(?:LLC|Inc|...)?$ : the optional suffix is made of
\* letters of the class before it, so it never decides the match
merchantPattern ==
  << <<One(UpperChars),
       Plus(LowerChars \cup UpperChars \cup DigitChars \cup SpaceChars \cup {"&", "'", "-"})>> >>

(* new Date(dateStr) and toISOString, for the strings patterns.date        *)
(* matches (normalizeDate is called with such a match only).  The          *)
(* language fixes the parse of the date-only form YYYY-MM-DD, a day of     *)
(* UTC; every other string is read by the engine's own parser, here the    *)
(* one of V8 (Node.js, Chrome), as a day of the local time zone:           *)
(*  - the text is cut into numbers, words and signs; '/', '.', ',' and     *)
(*    white space are passed over, and so is a '-' after a number;         *)
(*  - three numbers are year, month, day when the first cannot be a day    *)
(*    of the month, and month, day, year otherwise;                        *)
(*  - a word that starts with the three letters of a month names the       *)
(*    month; of the numbers with it the first is the day and the next the  *)
(*    year, or the first the year when it cannot be a day; a number that   *)
(*    is missing is 1;                                                     *)
(*  - a year 0..49 is 2000..2049 and a year 50..99 is 1950..1999;          *)
(*  - a month outside 1..12 or a day outside 1..31 makes the date          *)
(*    invalid; a day past the end of its month runs into the next month.   *)
(* toISOString gives the day of UTC on which the local midnight falls:     *)
(* the day before in a time zone east of Greenwich.  The time zone is the  *)
(* environment's; the model takes it from TimeZones.                       *)

TimeZones == {"America/New_York", "UTC", "Asia/Tokyo"}

\* midnight of the time zone is still the day before in UTC
MidnightIsDayBefore(timeZone) == timeZone = "Asia/Tokyo"
\* midnight of the time zone is later than the midnight of UTC
MidnightIsLater(timeZone) == timeZone = "America/New_York"

InvalidDate == [valid |-> FALSE, utc |-> FALSE, year |-> 0, month |-> 0, day |-> 0]
DateValue(utc, year, month, day) ==
  [valid |-> TRUE, utc |-> utc, year |-> year, month |-> month, day |-> day]

IsLeapYear(year) == (year % 4 = 0 /\ year % 100 # 0) \/ year % 400 = 0

DaysInMonth(year, month) ==
  IF month = 2 THEN (IF IsLeapYear(year) THEN 29 ELSE 28)
  ELSE IF month \in {4, 6, 9, 11} THEN 30
  ELSE 31

\* a time value is at most 8.64e15 ms, midnight UTC of 13 September
\* 275760: the local midnight of that day is the last one within range,
\* where it is not later than the midnight of UTC
InTimeRange(year, month, day, timeZone) ==
  \/ year < 275760
  \/ /\ year = 275760
     /\ \/ month < 9
        \/ month = 9 /\ day < 13
        \/ month = 9 /\ day = 13 /\ ~MidnightIsLater(timeZone)

FullYear(n) == IF n <= 49 THEN n + 2000 ELSE IF n <= 99 THEN n + 1900 ELSE n

\* the local day of a year, a month and a day number
LegacyDate(year, month, day, timeZone) ==
  IF /\ month \in 1..12 /\ day \in 1..31
     /\ InTimeRange(FullYear(year), month, day, timeZone)
  THEN DateValue(FALSE, FullYear(year), month, day)
  ELSE InvalidDate

NumbersDate(a, b, c, timeZone) ==
  IF a \in 1..31 THEN LegacyDate(c, a, b, timeZone) ELSE LegacyDate(a, b, c, timeZone)

NamedMonthDate(month, a, b, timeZone) ==
  IF a \in 1..31 THEN LegacyDate(b, month, a, timeZone)
  ELSE LegacyDate(a, month, b, timeZone)

\* the date of a match m of one of the two numeric forms: YYYY-MM-DD with a
\* month 01..12 and a day 01..31 is the date-only form, a day of UTC
NumericDate(m, s, timeZone) ==
  IF /\ m.alt = 2
     /\ Group(m, s, 2, 2) = "-" /\ Group(m, s, 4, 4) = "-"
     /\ Len(Group(m, s, 3, 3)) = 2 /\ DigitsVal(Group(m, s, 3, 3)) \in 1..12
     /\ Len(Group(m, s, 5, 5)) = 2 /\ DigitsVal(Group(m, s, 5, 5)) \in 1..31
  THEN DateValue(TRUE, DigitsVal(Group(m, s, 1, 1)), DigitsVal(Group(m, s, 3, 3)),
                 DigitsVal(Group(m, s, 5, 5)))
  ELSE NumbersDate(DigitsVal(Group(m, s, 1, 1)), DigitsVal(Group(m, s, 3, 3)),
                   DigitsVal(Group(m, s, 5, 5)), timeZone)

\* the date of a match m of the month-name form; the digits of day and
\* year are one number when nothing stands between them
MonthNameDate(m, s, timeZone) ==
  IF Group(m, s, 8, 9) = ""
  THEN NamedMonthDate(m.alt - 2, DigitsVal(Group(m, s, 7, 10)), 1, timeZone)
  ELSE NamedMonthDate(m.alt - 2, DigitsVal(Group(m, s, 7, 7)),
                      DigitsVal(Group(m, s, 10, 10)), timeZone)

ParsedDate(m, s, timeZone) ==
  IF ~m.ok THEN InvalidDate
  ELSE IF m.alt <= 2 THEN NumericDate(m, s, timeZone)
  ELSE MonthNameDate(m, s, timeZone)

\* new Date(dateStr) in a process of the time zone
NewDate(dateStr, timeZone) ==
  ParsedDate(MatchStart(datePattern, dateStr, TRUE), dateStr, timeZone)

RolledOver(date) ==
  IF date.day > DaysInMonth(date.year, date.month)
  THEN [date EXCEPT !.month = @ + 1, !.day = @ - DaysInMonth(date.year, date.month)]
  ELSE date

DayBefore(date) ==
  IF date.day > 1 THEN [date EXCEPT !.day = @ - 1]
  ELSE IF date.month > 1
  THEN [date EXCEPT !.month = @ - 1, !.day = DaysInMonth(date.year, date.month - 1)]
  ELSE [date EXCEPT !.year = @ - 1, !.month = 12, !.day = 31]

\* the day of UTC the date falls on
UtcDay(date, timeZone) ==
  IF date.utc \/ ~MidnightIsDayBefore(timeZone) THEN RolledOver(date)
  ELSE DayBefore(RolledOver(date))

\* the last width decimal digits of n
RECURSIVE PadZero(_, _)
PadZero(n, width) ==
  IF width = 0 THEN "" ELSE PadZero(n \div 10, width - 1) \o Ch(DigitAlpha, (n % 10) + 1)

\* date.toISOString().split('T')[0], the year with a sign and six digits
\* when it is past 9999
IsoDay(date) ==
  (IF date.year > 9999 THEN "+" \o PadZero(date.year, 6) ELSE PadZero(date.year, 4))
  \o "-" \o PadZero(date.month, 2) \o "-" \o PadZero(date.day, 2)

\* String.prototype.padStart with a pad of one character
RECURSIVE padStart(_, _, _)
padStart(str, targetLength, padString) ==
  IF Len(str) >= targetLength THEN str
  ELSE padStart(padString \o str, targetLength, padString)

\* the formats of the manual parse: regex and order
formats ==
  << [regex |-> << <<Atom(DigitChars, 1, 2), One(DateSepChars), Atom(DigitChars, 1, 2),
                     One(DateSepChars), Atom(DigitChars, 4, 4)>> >>,
      order |-> <<1, 2, 3>>],
     [regex |-> << <<Atom(DigitChars, 4, 4), One(DateSepChars), Atom(DigitChars, 1, 2),
                     One(DateSepChars), Atom(DigitChars, 1, 2)>> >>,
      order |-> <<3, 2, 1>>] >>

\* match[k] of a match of one of the formats: its k-th group of digits
DigitGroup(m, dateStr, k) == Group(m, dateStr, 2 * k - 1, 2 * k - 1)

\* year match[order[2]], month match[order[0]] and day match[order[1]],
\* the last two padded to two digits
ManualMatch(m, dateStr, order, otherwise) ==
  IF m.ok
  THEN DigitGroup(m, dateStr, order[3])
       \o "-" \o padStart(DigitGroup(m, dateStr, order[1]), 2, "0")
       \o "-" \o padStart(DigitGroup(m, dateStr, order[2]), 2, "0")
  ELSE otherwise

\* the loop over the formats, from format i on; the string itself when
\* none matches
RECURSIVE ManualParse(_, _)
ManualParse(dateStr, i) ==
  IF i > Len(formats) THEN dateStr
  ELSE ManualMatch(Search(formats[i].regex, dateStr, 1), dateStr, formats[i].order,
                   ManualParse(dateStr, i + 1))

DateOrManual(date, dateStr, timeZone) ==
  IF date.valid THEN IsoDay(UtcDay(date, timeZone)) ELSE ManualParse(dateStr, 1)

normalizeDate(dateStr, timeZone) ==
  IF dateStr = "" THEN ""
  ELSE DateOrManual(NewDate(dateStr, timeZone), dateStr, timeZone)

\* the first of the first 5 lines that looks like a merchant name, '' if none
RECURSIVE findMerchant(_, _)
findMerchant(lines, i) ==
  IF i > Len(lines) \/ i > 5 THEN ""
  ELSE IF /\ MatchStart(merchantPattern, lines[i], TRUE).ok
          /\ Len(lines[i]) > 2 /\ Len(lines[i]) < 50
          /\ ~Search(datePattern, lines[i], 1).ok
          /\ ~pricePattern(lines[i]).ok
  THEN trim(lines[i])
  ELSE findMerchant(lines, i + 1)

\* the date of match m in cleanLine, normalized; otherwise without a match
DateOfMatch(m, cleanLine, timeZone, otherwise) ==
  IF m.ok THEN normalizeDate(SubSeq(cleanLine, m.from, MatchEnd(m) - 1), timeZone)
  ELSE otherwise

DateIn(cleanLine, timeZone, otherwise) ==
  DateOfMatch(Search(datePattern, cleanLine, 1), cleanLine, timeZone, otherwise)

\* the first date token of the lines, normalized, '' if none
RECURSIVE findDate(_, _)
findDate(lines, timeZone) ==
  IF lines = <<>> THEN ""
  ELSE DateIn(StripPrefix(<< LitI("date") \o <<Star(SpaceChars), One({":"}),
                                               Star(SpaceChars)>> >>, Head(lines)),
              timeZone, findDate(Tail(lines), timeZone))

extractMetadata(lines, timeZone) ==
  [merchant |-> findMerchant(lines, 1), date |-> findDate(lines, timeZone)]

----------------------------------------------------------------------------
(* IEEE 754 double arithmetic.  calculateConfidence rounds and compares    *)
(* the results of double operations, so there the model follows the        *)
(* doubles bit by bit.  A natural number of any size is a sequence of      *)
(* limbs, least significant first, without leading zero limbs; a double is *)
(* (-1)^neg * m * 2^e with m such a number of at most 54 bits.  Exponent   *)
(* overflow, subnormals, infinities and -0 do not arise for the amounts of *)
(* a receipt and are not modelled.                                         *)

LimbBits == 15
LimbBase == 2^LimbBits
MantissaBits == 53
\* working precision of a quotient before it is rounded
QuotientBits == 120

Limb(a, i) == IF i <= Len(a) THEN a[i] ELSE 0

BigNorm(a) ==
  LET nz == {i \in 1..Len(a) : a[i] # 0}
  IN IF nz = {} THEN <<>> ELSE SubSeq(a, 1, MaxOf(nz))

BigFromInt(n) ==
  BigNorm(<<n % LimbBase, (n \div LimbBase) % LimbBase, n \div (LimbBase * LimbBase)>>)

\* for a number below 2^30
BigToInt(a) == Limb(a, 1) + LimbBase * Limb(a, 2)

BigCmp(a, b) ==
  LET d == {i \in 1..MaxOf({Len(a), Len(b)}) : Limb(a, i) # Limb(b, i)}
  IN IF d = {} THEN 0
     ELSE IF Limb(a, MaxOf(d)) > Limb(b, MaxOf(d)) THEN 1 ELSE 0 - 1

RECURSIVE BigAddFrom(_, _, _, _)
BigAddFrom(a, b, i, carry) ==
  IF i > Len(a) /\ i > Len(b) THEN (IF carry = 0 THEN <<>> ELSE <<carry>>)
  ELSE LET sum == Limb(a, i) + Limb(b, i) + carry
       IN <<sum % LimbBase>> \o BigAddFrom(a, b, i + 1, sum \div LimbBase)

BigAdd(a, b) == BigAddFrom(a, b, 1, 0)

\* a - b for a >= b
RECURSIVE BigSubFrom(_, _, _, _)
BigSubFrom(a, b, i, borrow) ==
  IF i > Len(a) THEN <<>>
  ELSE LET diff == Limb(a, i) - Limb(b, i) - borrow
       IN <<diff % LimbBase>> \o BigSubFrom(a, b, i + 1, IF diff < 0 THEN 1 ELSE 0)

BigSub(a, b) == BigNorm(BigSubFrom(a, b, 1, 0))

\* a * k for 0 <= k <= LimbBase
RECURSIVE BigMulSmallFrom(_, _, _, _)
BigMulSmallFrom(a, k, i, carry) ==
  IF i > Len(a) THEN (IF carry = 0 THEN <<>> ELSE <<carry>>)
  ELSE LET prod == a[i] * k + carry
       IN <<prod % LimbBase>> \o BigMulSmallFrom(a, k, i + 1, prod \div LimbBase)

BigMulSmall(a, k) == BigNorm(BigMulSmallFrom(a, k, 1, 0))

ShiftLimbs(a, k) == IF a = <<>> THEN <<>> ELSE [i \in 1..k |-> 0] \o a

RECURSIVE BigMulFrom(_, _, _)
BigMulFrom(a, b, i) ==
  IF i > Len(b) THEN <<>>
  ELSE BigAdd(ShiftLimbs(BigMulSmall(a, b[i]), i - 1), BigMulFrom(a, b, i + 1))

BigMul(a, b) == BigMulFrom(a, b, 1)

\* quotient and remainder of a by k, 0 < k <= LimbBase, from the top limb down
RECURSIVE BigDivSmallFrom(_, _, _, _)
BigDivSmallFrom(a, k, i, rem) ==
  IF i = 0 THEN [q |-> <<>>, r |-> rem]
  ELSE LET cur == rem * LimbBase + a[i]
           rest == BigDivSmallFrom(a, k, i - 1, cur % k)
       IN [q |-> rest.q \o <<cur \div k>>, r |-> rest.r]

NormQuotient(res) == [q |-> BigNorm(res.q), r |-> res.r]

BigDivSmall(a, k) == NormQuotient(BigDivSmallFrom(a, k, Len(a), 0))

BigShl(a, bits) ==
  ShiftLimbs(BigMulSmall(a, 2^(bits % LimbBits)), bits \div LimbBits)

BigShr(a, bits) ==
  IF bits \div LimbBits >= Len(a) THEN <<>>
  ELSE BigDivSmall(SubSeq(a, bits \div LimbBits + 1, Len(a)), 2^(bits % LimbBits)).q

BitLen(a) ==
  IF a = <<>> THEN 0
  ELSE LimbBits * (Len(a) - 1)
       + (CHOOSE k \in 1..LimbBits : 2^(k - 1) <= a[Len(a)] /\ a[Len(a)] < 2^k)

BigOne == <<1>>

\* a compared with half of 2^bits, after the bits above are cut off
CmpHalf(a, bits) ==
  BigCmp(BigSub(a, BigShl(BigShr(a, bits), bits)), BigShl(BigOne, bits - 1))

DZero == [neg |-> FALSE, m |-> <<>>, e |-> 0]

\* (-1)^neg * (m + a fraction, non-zero iff sticky) * 2^e to the nearest
\* double, ties to even
\* q with what was cut off compared with one half (c: -1, 0 or 1)
RoundCut(neg, q, c, e, sticky) ==
  [neg |-> neg,
   m |-> IF c > 0 \/ (c = 0 /\ (sticky \/ q[1] % 2 = 1)) THEN BigAdd(q, BigOne) ELSE q,
   e |-> e]

\* the lowest sh bits of m cut off
CutBits(neg, m, e, sticky, sh) ==
  RoundCut(neg, BigShr(m, sh), CmpHalf(m, sh), e + sh, sticky)

RoundBits(neg, m, e, sticky, bits) ==
  IF bits <= MantissaBits THEN [neg |-> neg, m |-> m, e |-> e]
  ELSE CutBits(neg, m, e, sticky, bits - MantissaBits)

RoundDouble(neg, m, e, sticky) ==
  IF m = <<>> THEN DZero ELSE RoundBits(neg, m, e, sticky, BitLen(m))

DNeg(x) == IF x.m = <<>> THEN x ELSE [x EXCEPT !.neg = ~x.neg]
DAbs(x) == [x EXCEPT !.neg = FALSE]

\* (-1)^xneg * mx + (-1)^yneg * my, both on the exponent e
AddAligned(xneg, mx, yneg, my, e) ==
  RoundDouble(IF xneg = yneg \/ BigCmp(mx, my) >= 0 THEN xneg ELSE yneg,
              IF xneg = yneg THEN BigAdd(mx, my)
              ELSE IF BigCmp(mx, my) >= 0 THEN BigSub(mx, my)
              ELSE BigSub(my, mx),
              e, FALSE)

AddOnExponent(x, y, e) ==
  AddAligned(x.neg, BigShl(x.m, x.e - e), y.neg, BigShl(y.m, y.e - e), e)

DAdd(x, y) ==
  IF x.m = <<>> THEN y
  ELSE IF y.m = <<>> THEN x
  ELSE AddOnExponent(x, y, IF x.e <= y.e THEN x.e ELSE y.e)

DSub(x, y) == DAdd(x, DNeg(y))

DMul(x, y) ==
  IF x.m = <<>> \/ y.m = <<>> THEN DZero
  ELSE RoundDouble(x.neg # y.neg, BigMul(x.m, y.m), x.e + y.e, FALSE)

\* x / k for an integer 0 < k <= LimbBase
RoundQuotient(neg, res, e) == RoundDouble(neg, res.q, e, res.r # 0)

DivScaled(x, k, sh) == RoundQuotient(x.neg, BigDivSmall(BigShl(x.m, sh), k), x.e - sh)

DDivInt(x, k) ==
  IF x.m = <<>> THEN DZero ELSE DivScaled(x, k, QuotientBits - BitLen(x.m))

IsNegative(d) == d.m # <<>> /\ d.neg
IsNotPositive(d) == d.m = <<>> \/ d.neg

DLeq(x, y) == IsNotPositive(DSub(x, y))
DLt(x, y) == IsNegative(DSub(x, y))
\* two doubles of the same value
DEq(x, y) == DSub(x, y).m = <<>>

\* m / den for den a power of ten: the floor and whether something is left
RECURSIVE DivTens(_, _)
DivTens(m, den) ==
  IF den = 1 THEN [q |-> m, sticky |-> FALSE]
  ELSE LET res == BigDivSmall(m, 10)
           rest == DivTens(res.q, den \div 10)
       IN [q |-> rest.q, sticky |-> rest.sticky \/ res.r # 0]

\* the double nearest to a decimal: what a numeric literal and parseFloat give
RoundTens(neg, res, e) == RoundDouble(neg, res.q, e, res.sticky)

TensScaled(x, m, sh) == RoundTens(x.num < 0, DivTens(BigShl(m, sh), x.den), 0 - sh)

DoubleOf(x, m) == TensScaled(x, m, QuotientBits - BitLen(m))

ToDouble(x) ==
  IF x.num = 0 THEN DZero ELSE DoubleOf(x, BigFromInt(Abs(x).num))

IntToDouble(n) == ToDouble(Dec(n, 1))

\* Math.round: the nearest integer, a tie to the larger one
\* whole and a fraction compared with one half (c: -1, 0 or 1)
RoundHalfUp(neg, whole, c) ==
  IF neg THEN 0 - (whole + (IF c > 0 THEN 1 ELSE 0))
  ELSE whole + (IF c >= 0 THEN 1 ELSE 0)

MathRound(x) ==
  IF x.m = <<>> THEN 0
  ELSE IF x.e >= 0 THEN (IF x.neg THEN 0 - 1 ELSE 1) * BigToInt(BigShl(x.m, x.e))
  ELSE RoundHalfUp(x.neg, BigToInt(BigShr(x.m, 0 - x.e)), CmpHalf(x.m, 0 - x.e))

----------------------------------------------------------------------------
(* Summary Aggregator: the step after the loop *)

\* The result of an operation on doubles, as the model holds a number: the
\* decimal literal with the places of den that stands for the double d
\* when there is one (1.84 for the double nearest to 1.84), and the double
\* itself when there is none (the 1.8399999999999999 of 5 - 3.16).
Literal(d, den) == Dec(MathRound(DMul(d, IntToDouble(den))), den)
HeldAs(d, literal) == IF DEq(ToDouble(literal), d) THEN literal ELSE d
Number(d, den) == HeldAs(d, Literal(d, den))

\* the double a number of either form is
AsDouble(x) == IF "den" \in DOMAIN x THEN ToDouble(x) ELSE x

\* no inference, as in the repository's other parser file
inferSubtotalNever(summary) == summary

\* the step after the loop: a missing subtotal is inferred, as
\* summary.total - summary.tax - summary.tip on doubles
inferSubtotal(summary) ==
  IF summary.subtotal = Zero /\ IsPositive(summary.total) /\ IsPositive(summary.tax)
  THEN [summary EXCEPT !.subtotal =
          Number(DSub(DSub(ToDouble(summary.total), ToDouble(summary.tax)),
                      ToDouble(summary.tip)),
                 MaxOf({summary.total.den, summary.tax.den, summary.tip.den}))]
  ELSE summary

extractSummary(lines) == inferSubtotal(foldSummary(emptySummary, lines))

----------------------------------------------------------------------------
(* Confidence Scorer *)

HalfD == ToDouble(Dec(5, 10))
OneD == ToDouble(Dec(1, 1))
HundredD == ToDouble(Dec(100, 1))

\* items.reduce((sum, item) => sum + (item.confidence || 0.5), 0)
RECURSIVE SumConfidence(_)
SumConfidence(items) ==
  IF items = <<>> THEN DZero
  ELSE LET item == items[Len(items)]
       IN DAdd(SumConfidence(SubSeq(items, 1, Len(items) - 1)),
               IF item.confidence = Zero THEN HalfD ELSE ToDouble(item.confidence))

\* items.reduce((sum, item) => sum + (item.price * item.quantity), 0)
RECURSIVE SumItems(_)
SumItems(items) ==
  IF items = <<>> THEN DZero
  ELSE LET item == items[Len(items)]
       IN DAdd(SumItems(SubSeq(items, 1, Len(items) - 1)),
               DMul(ToDouble(item.price), IntToDouble(item.quantity)))

\* the totals-consistency term
\* Math.abs(calculatedTotal - summary.total)
totalDiff(items, summary) ==
  DAbs(DSub(DAdd(DAdd(SumItems(items), ToDouble(summary.tax)), ToDouble(summary.tip)),
            ToDouble(summary.total)))

\* the bands of the difference against the tolerance
ToleranceBand(diff, tolerance) ==
  IF DLeq(diff, tolerance) THEN OneD
  ELSE IF DLeq(diff, DMul(tolerance, IntToDouble(2))) THEN ToDouble(Dec(8, 10))
  ELSE HalfD

totalConfidence(items, summary) ==
  IF ~IsPositive(summary.total) THEN OneD
  ELSE ToleranceBand(totalDiff(items, summary),
                     DMul(ToDouble(summary.total), ToDouble(Dec(5, 100))))

\* Math.round((itemConfidence * a + totalConfidence * b) * 100) / 100
Blend(itemConfidence, a, tc, b) ==
  Dec(MathRound(DMul(DAdd(DMul(itemConfidence, ToDouble(a)), DMul(tc, ToDouble(b))),
                     HundredD)), 100)

\* the scorer of the repository's other parser file: weights 0.7 and 0.3,
\* absolute thresholds 0.05 and 1.00
AbsoluteBand(diff) ==
  IF DLt(OneD, diff) THEN HalfD
  ELSE IF DLt(ToDouble(Dec(5, 100)), diff) THEN ToDouble(Dec(7, 10))
  ELSE OneD

calculateConfidenceAbsolute(items, summary) ==
  IF Len(items) = 0 THEN Zero
  ELSE Blend(DDivInt(SumConfidence(items), Len(items)), Dec(7, 10),
             IF ~IsPositive(summary.total) THEN OneD
             ELSE AbsoluteBand(totalDiff(items, summary)),
             Dec(3, 10))

\* the scorer without its guard for an empty item list: 0 / 0 is NaN
calculateConfidenceNoGuard(items, summary) ==
  IF Len(items) = 0 THEN NaN
  ELSE Blend(DDivInt(SumConfidence(items), Len(items)), Dec(6, 10),
             totalConfidence(items, summary), Dec(4, 10))

calculateConfidence(items, summary) ==
  IF Len(items) = 0 THEN Zero
  ELSE Blend(DDivInt(SumConfidence(items), Len(items)), Dec(6, 10),
             totalConfidence(items, summary), Dec(4, 10))

----------------------------------------------------------------------------
(* Main entry point *)

\* A JavaScript value: its type (typeof, with null apart) and its text
JsString(s) == [t |-> "string", v |-> s]
Falsy(x) ==
  \/ x.t \in {"undefined", "null"}
  \/ x.t = "string" /\ x.v = ""
  \/ x.t = "number" /\ x.v \in {"0", "NaN"}
  \/ x.t = "boolean" /\ x.v = "false"

Returned(value) == [status |-> "returned", value |-> value]
Threw(error) == [status |-> "threw", value |-> error]

createEmptyReceipt ==
  [merchant |-> "", date |-> "", items |-> <<>>, tax |-> Zero, tip |-> Zero,
   total |-> Zero, subtotal |-> Zero, confidence |-> Zero]

\* the ParsedReceipt returned at the end of parseReceiptText
ParsedReceipt(items, summary, metadata) ==
  [merchant |-> metadata.merchant, date |-> metadata.date, items |-> items,
   tax |-> summary.tax, tip |-> summary.tip, total |-> summary.total,
   subtotal |-> summary.subtotal, confidence |-> calculateConfidence(items, summary)]

buildReceipt(lines, timeZone) ==
  ParsedReceipt(extractItems(lines), extractSummary(lines),
                extractMetadata(lines, timeZone))

\* the entry point of the repository's other parser file: only falsy
\* values are turned away, and text.split fails on any other non-string
parseReceiptTextFalsyOnly(text, timeZone) ==
  IF Falsy(text) THEN Returned(createEmptyReceipt)
  ELSE IF text.t # "string" THEN Threw("TypeError")
  ELSE Returned(buildReceipt(preprocessText(text.v), timeZone))

\* timeZone: the time zone of the process, which new Date reads
parseReceiptText(text, timeZone) ==
  IF Falsy(text) \/ text.t # "string" THEN Returned(createEmptyReceipt)
  ELSE Returned(buildReceipt(preprocessText(text.v), timeZone))

----------------------------------------------------------------------------
(* Fuzzy matching *)

\* one row of the table: dp[i][0] = i is already in row, and dp[i][j] is
\* appended for j = 1..n; prev is the row dp[i-1], c the character str1[i-1]
RECURSIVE FillRow(_, _, _, _)
FillRow(prev, c, str2, row) ==
  IF Len(row) > Len(str2) THEN row
  ELSE FillRow(prev, c, str2,
               Append(row, IF c = Ch(str2, Len(row)) THEN prev[Len(row)]
                           ELSE MinOf({prev[Len(row) + 1] + 1, row[Len(row)] + 1,
                                       prev[Len(row)] + 1})))

\* the rows dp[i], dp[i+1], ... filled in turn; the last one is returned
RECURSIVE FillTable(_, _, _, _)
FillTable(str1, str2, i, prev) ==
  IF i > Len(str1) THEN prev
  ELSE FillTable(str1, str2, i + 1, FillRow(prev, Ch(str1, i), str2, <<i>>))

levenshteinDistance(str1, str2) ==
  FillTable(str1, str2, 1, [j \in 1..(Len(str2) + 1) |-> j - 1])[Len(str2) + 1]

\* 1 - (distance / maxLength)
DistanceRatio(distance, maxLength) ==
  DSub(OneD, DDivInt(IntToDouble(distance), maxLength))

\* the similarity measured against the length of the first string only
SimilarityOfByFirst(s1, s2) ==
  IF s1 = s2 THEN OneD
  ELSE IF Len(s1) = 0 THEN DZero
  ELSE DistanceRatio(levenshteinDistance(s1, s2), Len(s1))

\* the similarity of the two lowered and trimmed strings
SimilarityOf(s1, s2) ==
  IF s1 = s2 THEN OneD
  ELSE IF MaxOf({Len(s1), Len(s2)}) = 0 THEN OneD
  ELSE DistanceRatio(levenshteinDistance(s1, s2), MaxOf({Len(s1), Len(s2)}))

calculateSimilarity(str1, str2) ==
  SimilarityOf(trim(toLowerCase(str1)), trim(toLowerCase(str2)))

\* similarity >= similarityThreshold, for the items at seed and j
IsSimilar(items, seed, j, threshold) ==
  DLeq(ToDouble(threshold), calculateSimilarity(items[seed].name, items[j].name))

\* the inner loop comparing an item with every member of the group so far
RECURSIVE InnerLoopAnyMember(_, _, _, _, _)
InnerLoopAnyMember(items, used, threshold, j, group) ==
  IF j > Len(items) THEN group
  ELSE InnerLoopAnyMember(items, used, threshold, j + 1,
         IF j \notin used /\ \E k \in 1..Len(group) : IsSimilar(items, group[k], j, threshold)
         THEN Append(group, j) ELSE group)

\* the inner loop of mergeSimilarItems from index j on: group holds the
\* indices (1-based) pushed so far, the seed first; used is the set of
\* indices taken by earlier groups
RECURSIVE InnerLoop(_, _, _, _, _)
InnerLoop(items, used, threshold, j, group) ==
  IF j > Len(items) THEN group
  ELSE InnerLoop(items, used, threshold, j + 1,
         IF j \notin used /\ IsSimilar(items, group[1], j, threshold)
         THEN Append(group, j) ELSE group)

\* group.reduce((sum, item) => sum + item.price, 0)
RECURSIVE SumPrices(_, _)
SumPrices(items, group) ==
  IF group = <<>> THEN DZero
  ELSE DAdd(SumPrices(items, SubSeq(group, 1, Len(group) - 1)),
            ToDouble(items[group[Len(group)]].price))

\* group.reduce((sum, item) => sum + item.quantity, 0)
RECURSIVE SumQuantities(_, _)
SumQuantities(items, group) ==
  IF group = <<>> THEN 0
  ELSE SumQuantities(items, SubSeq(group, 1, Len(group) - 1))
       + items[group[Len(group)]].quantity

\* Math.max(...group.map(item => item.confidence))
MaxConfidence(items, group) ==
  CHOOSE c \in {items[group[k]].confidence : k \in 1..Len(group)} :
    \A k \in 1..Len(group) : Leq(items[group[k]].confidence, c)

Undefined == [t |-> "undefined", v |-> "undefined"]

\* the merged item with the price of the seed kept
mergedItemSeedPrice(items, group) ==
  [name |-> items[group[1]].name,
   price |-> ToDouble(items[group[1]].price),
   quantity |-> SumQuantities(items, group),
   confidence |-> DMul(ToDouble(MaxConfidence(items, group)), ToDouble(Dec(95, 100))),
   mergedFrom |-> IF Len(group) > 1 THEN [k \in 1..Len(group) |-> items[group[k]].raw]
                  ELSE Undefined]

\* const mergedItem = {...} : price and confidence are doubles
mergedItem(items, group) ==
  [name |-> items[group[1]].name,
   price |-> DDivInt(SumPrices(items, group), Len(group)),
   quantity |-> SumQuantities(items, group),
   confidence |-> DMul(ToDouble(MaxConfidence(items, group)), ToDouble(Dec(95, 100))),
   mergedFrom |-> IF Len(group) > 1 THEN [k \in 1..Len(group) |-> items[group[k]].raw]
                  ELSE Undefined]

----------------------------------------------------------------------------
(* Specification SpecPrice: parsePrice called once on a price string.       *)
(* The input records, beside the text handed to parsePrice, how the text   *)
(* was built: an optional currency sign, then digit groups joined by       *)
(* separators (groups = <<>> for a text that is not built that way).       *)

MaxParts == 3
MaxDigits == 6

PriceGroups == {"", "0", "1", "5", "00", "50", "56", "12", "234", "000", "1234"}
OtherPrices == {"-5", "-0.50", "abc", "12abc", "$", " ", "-", "+3", "-.5", "$ 12.50", "a1", "N/A"}

RECURSIVE TotalLen(_)
TotalLen(gs) == IF gs = <<>> THEN 0 ELSE Len(Head(gs)) + TotalLen(Tail(gs))

\* g1 s1 g2 s2 ... gn
RECURSIVE Interleave(_, _)
Interleave(gs, ss) ==
  IF Len(gs) = 1 THEN gs[1]
  ELSE gs[1] \o ss[1] \o Interleave(Tail(gs), Tail(ss))

PriceInputs ==
  { [text |-> cur \o Interleave(gs, ss), groups |-> gs, seps |-> ss] :
      <<gs, ss, cur>> \in
        UNION { {g \in [1..n -> PriceGroups] : TotalLen(g) <= MaxDigits}
                \X [1..(n - 1) -> {".", ","}] \X {"", "$"} : n \in 1..MaxParts } }
  \cup { [text |-> t, groups |-> <<>>, seps |-> <<>>] : t \in OtherPrices }

NoOutput == [status |-> "none"]

InitPrice ==
  /\ pc = "start"
  /\ input \in PriceInputs
  /\ output = NoOutput
  /\ classified = <<>>

CallParsePrice ==
  /\ pc = "start"
  /\ output' = parsePrice(input.text)
  /\ pc' = "done"
  /\ UNCHANGED <<input, classified>>

NextPrice == CallParsePrice

SpecPrice == InitPrice /\ [][NextPrice]_vars

\* the value of the digit string ds read with its last k digits as decimals
DigitsAs(ds, k) == Dec(DigitsVal(ds), Pow10(k))

\* '.' and ',' exchanged throughout
SwapMarkers(str) ==
  LET parts == [i \in 1..Len(str) |->
                  IF Ch(str, i) = "." THEN "," ELSE IF Ch(str, i) = "," THEN "." ELSE Ch(str, i)]
  IN JoinRange(parts, 1, Len(str))

HasDigit(str) == \E i \in 1..Len(str) : Ch(str, i) \in DigitChars

\* C2: with the text split on '.' and ',': more than two parts are read as
\* thousands groups followed by a decimal part; with two parts a 2-digit
\* second part is the decimals, a 1-digit second part is padded to 2
\* decimals, and a second part of 3 or more digits makes the separator a
\* thousands separator (no fraction).
C2_PartsRule ==
  (pc = "done" /\ Len(input.groups) >= 2) =>
    LET gs == input.groups
        n == Len(gs)
        last == gs[n]
        whole == JoinRange(gs, 1, n - 1)
    IN /\ n > 2 => output = DigitsAs(whole \o last, Len(last))
       /\ (n = 2 /\ Len(last) = 2) => output = DigitsAs(whole \o last, 2)
       /\ (n = 2 /\ Len(last) = 1) => output = DigitsAs(whole \o last \o "0", 2)
       /\ (n = 2 /\ Len(last) > 2) => output = DigitsAs(whole \o last, 0)

\* two parts with a 3-digit second part: '1.234' is one thousand and more
C2_Witness ==
  pc = "done" /\ input.text = "1.234" /\ output = Dec(1234, 1)

\* C3: '.' and ',' are interchangeable: a text and the text with the two
\* markers exchanged have the same value, 'i.ff' and 'i,ff' both are i + ff/100,
\* and '1.234,56' and '1,234.56' both are 1234.56.
C3_MarkersInterchangeable ==
  (pc = "done" /\ Len(input.groups) >= 2) =>
    /\ output = parsePrice(SwapMarkers(input.text))
    /\ (Len(input.groups) = 2 /\ Len(input.groups[2]) = 2) =>
          output = DigitsAs(input.groups[1] \o input.groups[2], 2)
    /\ input.text \in {"1.234,56", "1,234.56"} => output = Dec(123456, 100)

C3_Witness ==
  pc = "done" /\ input.text = "1.234,56" /\ output = Dec(123456, 100)

\* C4: parsePrice returns a finite number >= 0 for every input, and 0 for
\* the empty string and for a text without a number in it.
C4_NeverNegative ==
  pc = "done" =>
    /\ IsNum(output)
    /\ Leq(Zero, output)
    /\ (input.text = "" \/ ~HasDigit(input.text)) => output = Zero

----------------------------------------------------------------------------
(* Specification SpecLine: categorizeLine called once on a preprocessed    *)
(* line made of a label, a gap and an amount.                              *)

LineLabels ==
  {"Tax", "Sales Tax", "Tax (8%)", "Tip", "Tip:", "Gratuity", "Total", "Total:",
   "Grand Total", "Subtotal", "Sub-total:", "Net", "Burger", "2x Fries",
   "CHICKEN WINGS", "123 Main St", "Cash"}
LineGaps == {"", " ", "   ", ": ", "...."}
LineAmounts == {"", "$3.00", "3.00", "$150", "0.00", "12,5"}

LineInputs == { trim(l \o g \o a) : <<l, g, a>> \in LineLabels \X LineGaps \X LineAmounts }

InitLine ==
  /\ pc = "start"
  /\ input \in LineInputs
  /\ output = NoOutput
  /\ classified = <<>>

CallCategorizeLine ==
  /\ pc = "start"
  /\ output' = categorizeLine(input)
  /\ pc' = "done"
  /\ UNCHANGED <<input, classified>>

NextLine == CallCategorizeLine

SpecLine == InitLine /\ [][NextLine]_vars

\* C1: the summary rules come first: a line that one of the tax, tip, total
\* and subtotal rules accepts is classified as that summary kind, and only a
\* line none of them accepts can become a dotted, standard or fallback item.
C1_SummaryRulesFirst ==
  (pc = "done" /\ summaryRule(input).type # "unknown") => output = summaryRule(input)

----------------------------------------------------------------------------
(* Specification SpecSummary: extractSummary run turn by turn.  Each turn  *)
(* of its loop takes the next line of the receipt; input is the lines      *)
(* taken so far, classified what categorizeLine made of each, output the   *)
(* summary under construction.  The step after the loop ends the call.     *)

MaxSummaryLines == 3

SummaryLines ==
  {"Tax: $3.00", "Tax (8%): $3.16", "Tip: $4.00", "Tip 8.00", "Total: $5.00",
   "Total: $50.66", "Subtotal: $39.50", "Soda $3.00", "Cash"}

InitSummary ==
  /\ pc = "loop"
  /\ input = <<>>
  /\ output = emptySummary
  /\ classified = <<>>

SummaryLoop ==
  /\ pc = "loop"
  /\ Len(input) < MaxSummaryLines
  /\ \E line \in SummaryLines :
       LET categorized == categorizeLine(line)
       IN /\ input' = Append(input, line)
          /\ classified' = Append(classified, categorized)
          /\ output' = summaryStep(output, categorized)
  /\ UNCHANGED pc

SummaryInfer ==
  /\ pc = "loop"
  /\ output' = inferSubtotal(output)
  /\ pc' = "done"
  /\ UNCHANGED <<input, classified>>

NextSummary == SummaryLoop \/ SummaryInfer

SpecSummary == InitSummary /\ [][NextSummary]_vars

SummaryKinds == {"tax", "tip", "total", "subtotal"}
OfKind(kind) == {i \in 1..Len(classified) : classified[i].type = kind}

\* C6: of several lines of one summary kind the last one sets the value
\* (for the subtotal: before the inference step); a kind without a line is 0.
C6_LastOccurrenceWins ==
  \A kind \in SummaryKinds :
    (pc = "loop" \/ kind # "subtotal") =>
      output[kind] = IF OfKind(kind) = {} THEN Zero
                     ELSE classified[MaxOf(OfKind(kind))].data.amount

\* two tax lines with different amounts, the second one kept
C6_Witness ==
  /\ pc = "done"
  /\ \E i, j \in OfKind("tax") :
       /\ i < j
       /\ classified[i].data.amount # classified[j].data.amount
       /\ output.tax = classified[j].data.amount

\* the amount x rounded to the decimal places of den
RoundedTo(x, den) == Literal(AsDouble(x), den)

\* C7: after the loop, when subtotal = 0, total > 0 and tax > 0 the subtotal
\* becomes total - tax - tip, which may be negative; otherwise it is left
\* as it is.  Tax, tip and total are not touched.  The difference is the
\* one of JavaScript numbers, (total - tax) - tip on doubles; rounded to
\* the decimal places of the three amounts it is their exact difference.
C7_SubtotalInference ==
  [][(pc = "loop" /\ pc' = "done") =>
       /\ output'.tax = output.tax /\ output'.tip = output.tip /\ output'.total = output.total
       /\ IF output.subtotal = Zero /\ Lt(Zero, output.total) /\ Lt(Zero, output.tax)
          THEN /\ DEq(AsDouble(output'.subtotal),
                      DSub(DSub(ToDouble(output.total), ToDouble(output.tax)),
                           ToDouble(output.tip)))
               /\ RoundedTo(output'.subtotal,
                            MaxOf({output.total.den, output.tax.den, output.tip.den}))
                    = Sub(Sub(output.total, output.tax), output.tip)
          ELSE output'.subtotal = output.subtotal]_vars

\* total 5.00, tax 3.00 and tip 4.00: the inferred subtotal is -2.00
C7_Witness ==
  /\ pc = "done"
  /\ OfKind("subtotal") = {}
  /\ output.total = Dec(5, 1) /\ output.tax = Dec(3, 1) /\ output.tip = Dec(4, 1)
  /\ output.subtotal = Dec(0 - 2, 1)

----------------------------------------------------------------------------
(* Specification Spec: parseReceiptText called once on a JavaScript value: *)
(* a text of a few lines, one of the sample receipts, or a non-string, in  *)
(* a process of some time zone.                                            *)

testReceipts ==
  [simple |-> "Joe's Restaurant\n123 Main St\nDate: 2024-01-15\n\n2x Chicken Wings $24.00\nCaesar Salad $12.50\nSoda $3.00\n\nSubtotal: $39.50\nTax (8%): $3.16\nTip: $8.00\nTotal: $50.66",
   dotted |-> "BURGER PALACE\nOrder #12345\n01/15/2024\n\nCHICKEN WINGS..............$24.00\nCHEESE BURGER..............$15.50\nFRENCH FRIES...............$6.00\n\nSubtotal: $45.50\nTax: $3.64\nTotal: $49.14",
   messy |-> "Cafe Roma\n2024-01-15\n\n@2 Wings $24\nSalad 12.5\nDrink 3.00\n\nTax 4.00\nTip 10.00\nTotal 64.00"]

MaxTextLines == 2

TextLines ==
  {"Joe's Diner", "Table Talk Cafe", "Date: 2024-01-15", "2024-03-09", "01/15/2024", "",
   "  Soda $3.00 ", "Tax: $0.30", "Total: $3.30", "2x....$5.00", "2 x Tax....$3.00"}

NonStrings ==
  {[t |-> "undefined", v |-> "undefined"], [t |-> "null", v |-> "null"],
   [t |-> "number", v |-> "0"], [t |-> "number", v |-> "42"],
   [t |-> "boolean", v |-> "true"], [t |-> "object", v |-> "{}"],
   [t |-> "object", v |-> "[]"]}

Texts ==
  { JoinRange([i \in 1..(2 * n - 1) |-> IF i % 2 = 1 THEN ls[(i + 1) \div 2] ELSE "\n"],
              1, 2 * n - 1) :
      <<n, ls>> \in UNION { {k} \X [1..k -> TextLines] : k \in 1..MaxTextLines } }

ReceiptInputs ==
  NonStrings
  \cup { JsString(t) : t \in Texts }
  \cup { JsString(testReceipts[k]) : k \in {"simple", "dotted", "messy"} }

Init ==
  /\ pc = "start"
  /\ input \in ReceiptInputs
  /\ output = NoOutput
  /\ classified \in TimeZones

CallParseReceiptText ==
  /\ pc = "start"
  /\ output' = parseReceiptText(input, classified)
  /\ pc' = "done"
  /\ UNCHANGED <<input, classified>>

Next == CallParseReceiptText

Spec == Init /\ [][Next]_vars

\* C5: for the empty string and for a value that is not a string the call
\* returns the empty receipt (merchant '', date '', no items, tax, tip,
\* total, subtotal and confidence 0) and raises no exception.
C5_EmptyReceipt ==
  (pc = "done" /\ (input.t # "string" \/ input.v = "")) =>
    /\ output.status = "returned"
    /\ output.value.merchant = "" /\ output.value.date = ""
    /\ output.value.items = <<>>
    /\ output.value.tax = Zero /\ output.value.tip = Zero
    /\ output.value.total = Zero /\ output.value.subtotal = Zero
    /\ output.value.confidence = Zero

\* a number that is not falsy is answered with the empty receipt
C5_Witness ==
  /\ pc = "done"
  /\ input = [t |-> "number", v |-> "42"]
  /\ output = Returned(createEmptyReceipt)

\* the text cut into trimmed lines, the empty ones left out and nothing else
UnfilteredLines(text) == SelectSeq(TrimmedLines(text), NonEmptyLine)

\* C8: metadata is extracted from the unfiltered lines: every non-empty
\* line, one on the skip-list too, is examined for the merchant (among the
\* first 5) and for the date, so a 'Date: <date>' line gives the date.
C8_MetadataFromUnfilteredLines ==
  (pc = "done" /\ input.t = "string" /\ input.v # "") =>
    /\ output.value.date = extractMetadata(UnfilteredLines(input.v), classified).date
    /\ output.value.merchant
         = extractMetadata(UnfilteredLines(input.v), classified).merchant

\* the items of the receipt returned
ReturnedItems == IF pc = "done" /\ output.status = "returned" THEN output.value.items ELSE <<>>

\* C15: every item of the receipt returned by parseReceiptText has a name
\* that is not empty, is no keyword of the denylist and is not made of
\* digits and punctuation only, a price of at least 0, a quantity that is a
\* whole number of at least 1, and a confidence between 0 and 1.
C15_ItemsWellFormed ==
  \A k \in 1..Len(ReturnedItems) :
    /\ ReturnedItems[k].name # ""
    /\ toLowerCase(trim(ReturnedItems[k].name)) \notin invalidWords
    /\ ~OnlyDigitsAndPunct(ReturnedItems[k].name)
    /\ Leq(Zero, ReturnedItems[k].price)
    /\ ReturnedItems[k].quantity \in Nat \ {0}
    /\ Leq(Zero, ReturnedItems[k].confidence) /\ Leq(ReturnedItems[k].confidence, Dec(1, 1))

\* name, price and quantity of an item
Essentials(item) == <<item.name, item.price, item.quantity>>

\* C17: for the scenario-1 receipt (testReceipts.simple) the call returns
\* merchant "Joe's Restaurant", date "2024-01-15", the three items Chicken
\* Wings 24.00 x 2, Caesar Salad 12.50 x 1 and Soda 3.00 x 1 in this
\* order, subtotal 39.50, tax 3.16, tip 8.00 and total 50.66.
C17_ScenarioOne ==
  (pc = "done" /\ input = JsString(testReceipts.simple)) =>
    /\ output.status = "returned"
    /\ output.value.merchant = "Joe's Restaurant"
    /\ output.value.date = "2024-01-15"
    /\ [k \in 1..Len(output.value.items) |-> Essentials(output.value.items[k])]
         = << <<"Chicken Wings", Dec(2400, 100), 2>>,
              <<"Caesar Salad", Dec(1250, 100), 1>>,
              <<"Soda", Dec(300, 100), 1>> >>
    /\ output.value.subtotal = Dec(3950, 100)
    /\ output.value.tax = Dec(316, 100)
    /\ output.value.tip = Dec(800, 100)
    /\ output.value.total = Dec(5066, 100)

\* C18: the confidence returned for the scenario-1 receipt is above 0.8.
C18_ScenarioOneConfidence ==
  (pc = "done" /\ input = JsString(testReceipts.simple)) =>
    Lt(Dec(8, 10), output.value.confidence)

----------------------------------------------------------------------------
(* Specification SpecConfidence: calculateConfidence called once on a list *)
(* of items and a summary.                                                 *)

MaxItems == 2

\* confidences the classifier gives (0.95, 0.92, 0.85, 0.7), a missing one
\* (0) and a full one; prices on the border of a tolerance band of the
\* totals below, and a negative one
ScoredItems ==
  {[price |-> Dec(95, 1), quantity |-> 1, confidence |-> Dec(85, 100)],
   [price |-> Dec(90, 1), quantity |-> 1, confidence |-> Dec(95, 100)],
   [price |-> Dec(1250, 100), quantity |-> 2, confidence |-> Dec(92, 100)],
   [price |-> Dec(3, 1), quantity |-> 1, confidence |-> Dec(7, 10)],
   [price |-> Dec(228, 100), quantity |-> 1, confidence |-> Zero],
   [price |-> Dec(0 - 5, 1), quantity |-> 1, confidence |-> Dec(1, 1)]}

ScoredSummaries ==
  [tax : {Zero, Dec(316, 100)}, tip : {Zero, Dec(0 - 3, 1)},
   total : {Zero, Dec(0 - 50, 1), Dec(100, 1), Dec(240, 100), Dec(1000000, 1)},
   subtotal : {Zero}]

ConfidenceInputs ==
  [items : UNION { [1..n -> ScoredItems] : n \in 0..MaxItems }, summary : ScoredSummaries]

InitConfidence ==
  /\ pc = "start"
  /\ input \in ConfidenceInputs
  /\ output = NoOutput
  /\ classified = <<>>

CallCalculateConfidence ==
  /\ pc = "start"
  /\ output' = calculateConfidence(input.items, input.summary)
  /\ pc' = "done"
  /\ UNCHANGED <<input, classified>>

NextConfidence == CallCalculateConfidence

SpecConfidence == InitConfidence /\ [][NextConfidence]_vars

\* C9: the score is exactly 0 for an empty item list, and between 0 and 1
\* for a non-empty list of items with confidences in [0,1], whatever the
\* sign and size of total, tax and tip.
C9_ScoreInUnitInterval ==
  pc = "done" =>
    IF input.items = <<>> THEN output = Zero
    ELSE IsNum(output) /\ Leq(Zero, output) /\ Leq(output, Dec(1, 1))

\* items scored against a negative total
C9_Witness ==
  /\ pc = "done"
  /\ Len(input.items) = 2
  /\ input.summary.total = Dec(0 - 50, 1)
  /\ Leq(Dec(5, 10), output) /\ Leq(output, Dec(1, 1))

\* The quantities of the documented formula, in exact arithmetic.
\* The sum of the confidences, a confidence c read as dflt when it is 0.
RECURSIVE ExactConfidences(_, _)
ExactConfidences(items, dflt) ==
  IF items = <<>> THEN Zero
  ELSE Add(IF Head(items).confidence = Zero THEN dflt ELSE Head(items).confidence,
           ExactConfidences(Tail(items), dflt))

RECURSIVE ExactItemsTotal(_)
ExactItemsTotal(items) ==
  IF items = <<>> THEN Zero
  ELSE Add(Mul(Head(items).price, Dec(Head(items).quantity, 1)), ExactItemsTotal(Tail(items)))

\* D = |sum(price * quantity) + tax + tip - total| and tol = 5% of total
ExactD(in) ==
  Abs(Sub(Add(Add(ExactItemsTotal(in.items), in.summary.tax), in.summary.tip), in.summary.total))
ExactTol(in) == Mul(in.summary.total, Dec(5, 100))

\* 100 * (0.6 * sum / n + 0.4 * t) as the fraction num / den, den > 0
Blend100(sum, n, t) ==
  [num |-> 60 * sum.num * t.den + 40 * t.num * sum.den * n, den |-> sum.den * n * t.den]

\* hundredths h is the fraction v rounded, a tie going up
IsRound2(h, v) == h = (2 * v.num + v.den) \div (2 * v.den)
\* hundredths h is an integer nearest to the fraction v
IsNearest(h, v) ==
  /\ 2 * h * v.den - 2 * v.num <= v.den
  /\ 2 * v.num - 2 * h * v.den <= v.den

Hundredths(x) == OnDen(x, 100)

\* C10, as stated: the score of a non-empty list is round2(0.6 * mean of
\* the confidences + 0.4 * T), T = 1.0 when D <= tol, 0.8 when
\* tol < D <= 2 tol, 0.5 when D > 2 tol.
C10_AsStated ==
  (pc = "done" /\ input.items # <<>>) =>
    LET t == IF Leq(ExactD(input), ExactTol(input)) THEN Dec(1, 1)
             ELSE IF Leq(ExactD(input), Mul(ExactTol(input), Dec(2, 1))) THEN Dec(8, 10)
             ELSE Dec(5, 10)
    IN IsRound2(Hundredths(output),
                Blend100(ExactConfidences(input.items, Zero), Len(input.items), t))

\* C10, amended: the score of a non-empty list is 0.6 * m + 0.4 * T rounded
\* to a nearest hundredth (double arithmetic decides a value halfway
\* between two hundredths), where m is the mean of the confidences with a
\* confidence of 0 counted as 0.5, T = 1.0 when total <= 0, and otherwise
\* T = 1.0 when D < tol, 0.8 when tol < D < 2 tol, 0.5 when D > 2 tol, and
\* one of the two neighbouring values when D is exactly tol or 2 tol.
C10_BlendedScore ==
  (pc = "done" /\ input.items # <<>>) =>
    LET d == ExactD(input)
        tol == ExactTol(input)
        ts == IF Leq(input.summary.total, Zero) THEN {Dec(1, 1)}
              ELSE {t \in {Dec(1, 1), Dec(8, 10), Dec(5, 10)} :
                      \/ t = Dec(1, 1) /\ Leq(d, tol)
                      \/ t = Dec(8, 10) /\ Leq(tol, d) /\ Leq(d, Mul(tol, Dec(2, 1)))
                      \/ t = Dec(5, 10) /\ Leq(Mul(tol, Dec(2, 1)), d)}
    IN \E t \in ts :
         IsNearest(Hundredths(output),
                   Blend100(ExactConfidences(input.items, Dec(5, 10)), Len(input.items), t))

\* one item of 90.00 against a total of 100.00: D is 2 tol, T is 0.8
C10_Witness ==
  /\ pc = "done"
  /\ Len(input.items) = 1 /\ input.items[1].price = Dec(90, 1)
  /\ input.summary = [tax |-> Zero, tip |-> Zero, total |-> Dec(100, 1), subtotal |-> Zero]
  /\ output = Dec(89, 100)

----------------------------------------------------------------------------
(* Specification SpecSimilarity: calculateSimilarity called once on a pair *)
(* of strings.                                                             *)

SimilarNames ==
  {"Wings", "Wing", "wings ", "Wigs", "Chicken Wings", "Soda", "Sofa", "Coda",
   "", " ", "Fries", "Fried Rice", "kitten", "sitting"}

InitSimilarity ==
  /\ pc = "start"
  /\ input \in SimilarNames \X SimilarNames
  /\ output = NoOutput
  /\ classified = <<>>

CallCalculateSimilarity ==
  /\ pc = "start"
  /\ output' = calculateSimilarity(input[1], input[2])
  /\ pc' = "done"
  /\ UNCHANGED <<input, classified>>

NextSimilarity == CallCalculateSimilarity

SpecSimilarity == InitSimilarity /\ [][NextSimilarity]_vars

\* C11: the similarity of a and b is the similarity of b and a, the
\* similarity of a string and itself is 1.0, and every similarity lies
\* between 0 and 1.
C11_SymmetricReflexiveBounded ==
  pc = "done" =>
    /\ output = calculateSimilarity(input[2], input[1])
    /\ (input[1] = input[2] => output = OneD)
    /\ DLeq(DZero, output) /\ DLeq(output, OneD)

\* 'kitten' against 'sitting': distance 3 over length 7, in either order
C11_Witness ==
  /\ pc = "done"
  /\ input = <<"sitting", "kitten">>
  /\ output = DSub(OneD, DDivInt(IntToDouble(3), 7))
  /\ output = calculateSimilarity("kitten", "sitting")

----------------------------------------------------------------------------
(* Specification SpecMerge: mergeSimilarItems run turn by turn.  input is  *)
(* the item list and the threshold; output holds the loop index i          *)
(* (1-based), the set used and the list merged; classified is the group of *)
(* each turn that formed one, as the indices of its items.                 *)

MaxMergeItems == 3

MergeItems ==
  { [name |-> "Wings", price |-> Dec(12, 1), quantity |-> 1, raw |-> "Wings $12.00",
     confidence |-> Dec(85, 100)],
    [name |-> "Wing", price |-> Dec(11, 1), quantity |-> 1, raw |-> "Wing....$11.00",
     confidence |-> Dec(92, 100)],
    [name |-> "Soda", price |-> Dec(3, 1), quantity |-> 2, raw |-> "2x Soda $3.00",
     confidence |-> Dec(95, 100)],
    [name |-> "Sofa", price |-> Dec(350, 100), quantity |-> 1, raw |-> "Sofa 3,5",
     confidence |-> Dec(70, 100)],
    [name |-> "Cofa", price |-> Dec(228, 100), quantity |-> 3, raw |-> "3 Cofa 2.28",
     confidence |-> Zero] }

MergeThresholds == {Dec(85, 100), Dec(75, 100)}

MergeInputs ==
  { [items |-> items, threshold |-> threshold] :
      <<items, threshold>> \in
        (UNION { [1..n -> MergeItems] : n \in 0..MaxMergeItems }) \X MergeThresholds }

InitMerge ==
  /\ pc = "loop"
  /\ input \in MergeInputs
  /\ output = [i |-> 1, used |-> {}, merged |-> <<>>]
  /\ classified = <<>>

\* if (used.has(i)) continue
MergeSkip ==
  /\ pc = "loop"
  /\ output.i <= Len(input.items)
  /\ output.i \in output.used
  /\ output' = [output EXCEPT !.i = output.i + 1]
  /\ UNCHANGED <<pc, input, classified>>

\* the group the turn i forms
TurnGroup == InnerLoop(input.items, output.used, input.threshold, output.i + 1, <<output.i>>)

\* one turn of the outer loop for an item not yet used
MergeTurn ==
  /\ pc = "loop"
  /\ output.i <= Len(input.items)
  /\ output.i \notin output.used
  /\ classified' = Append(classified, TurnGroup)
  /\ output' = [i |-> output.i + 1,
                used |-> output.used \cup {classified'[Len(classified')][k] :
                                             k \in 1..Len(classified'[Len(classified')])},
                merged |-> Append(output.merged,
                                  mergedItem(input.items, classified'[Len(classified')]))]
  /\ UNCHANGED <<pc, input>>

\* return merged
MergeReturn ==
  /\ pc = "loop"
  /\ output.i > Len(input.items)
  /\ pc' = "done"
  /\ UNCHANGED <<input, output, classified>>

NextMerge == MergeSkip \/ MergeTurn \/ MergeReturn

SpecMerge == InitMerge /\ [][NextMerge]_vars

GroupMembers(k) == {classified[k][n] : n \in 1..Len(classified[k])}
EarlierMembers(k) == UNION {GroupMembers(h) : h \in 1..(k - 1)}
ItemNames == [k \in 1..Len(input.items) |-> input.items[k].name]

\* C12: the groups are formed greedily in one pass: the seed of a group is
\* the first item no earlier group holds, and the group holds, beside its
\* seed, exactly the later items no earlier group holds whose similarity to
\* the seed's name is at least the threshold (other members of the group
\* play no part); every item ends in one group and every group gives one
\* output item; 'Wings' and 'Wing' at threshold 0.85 give two items.
C12_GreedySeedGrouping ==
  /\ \A k \in 1..Len(classified) :
       /\ classified[k][1] = MinOf((1..Len(input.items)) \ EarlierMembers(k))
       /\ GroupMembers(k) =
            {classified[k][1]} \cup
            {j \in (classified[k][1] + 1)..Len(input.items) :
               /\ j \notin EarlierMembers(k)
               /\ IsSimilar(input.items, classified[k][1], j, input.threshold)}
  /\ Len(output.merged) = Len(classified)
  /\ pc = "done" =>
       /\ EarlierMembers(Len(classified) + 1) = 1..Len(input.items)
       /\ (ItemNames = <<"Wings", "Wing">> /\ input.threshold = Dec(85, 100)
             => Len(output.merged) = 2)

\* Soda ~ Sofa and Sofa ~ Cofa at 0.75, but not Soda ~ Cofa: {Soda, Sofa}, {Cofa}
C12_Witness ==
  /\ pc = "done"
  /\ ItemNames = <<"Soda", "Sofa", "Cofa">>
  /\ input.threshold = Dec(75, 100)
  /\ IsSimilar(input.items, 1, 2, input.threshold)
  /\ IsSimilar(input.items, 2, 3, input.threshold)
  /\ ~IsSimilar(input.items, 1, 3, input.threshold)
  /\ classified = << <<1, 2>>, <<3>> >>

\* the prices of the first n items of group g added up from 0, left to right
RECURSIVE PriceTotal(_, _)
PriceTotal(g, n) ==
  IF n = 0 THEN DZero
  ELSE DAdd(PriceTotal(g, n - 1), ToDouble(input.items[g[n]].price))

RECURSIVE QuantityTotal(_, _)
QuantityTotal(qs, n) == IF n = 0 THEN 0 ELSE QuantityTotal(qs, n - 1) + qs[n].quantity

\* C13: the output item of a group of two or more items has the seed's
\* name, the mean of the group's prices (their sum divided by their
\* number, in Number arithmetic), the sum of the group's quantities, and
\* the largest confidence of the group times 0.95; the quantities of the
\* output add up to those of the input.
C13_MergedGroup ==
  /\ \A k \in 1..Len(output.merged) :
       Len(classified[k]) >= 2 =>
         /\ output.merged[k].name = input.items[classified[k][1]].name
         /\ DEq(output.merged[k].price,
                DDivInt(PriceTotal(classified[k], Len(classified[k])), Len(classified[k])))
         /\ output.merged[k].quantity =
              QuantityTotal([n \in 1..Len(classified[k]) |-> input.items[classified[k][n]]],
                            Len(classified[k]))
         /\ \E n \in 1..Len(classified[k]) :
              /\ \A h \in 1..Len(classified[k]) :
                   Leq(input.items[classified[k][h]].confidence,
                       input.items[classified[k][n]].confidence)
              /\ DEq(output.merged[k].confidence,
                     DMul(ToDouble(input.items[classified[k][n]].confidence),
                          ToDouble(Dec(95, 100))))
  /\ pc = "done" =>
       QuantityTotal(output.merged, Len(output.merged))
         = QuantityTotal(input.items, Len(input.items))

\* Wings 12.00 and Wing 11.00 merged at 0.75: Wings, 11.50, quantity 2
C13_Witness ==
  /\ pc = "done"
  /\ ItemNames = <<"Wings", "Wing">>
  /\ classified = << <<1, 2>> >>
  /\ output.merged[1].name = "Wings"
  /\ DEq(output.merged[1].price, ToDouble(Dec(1150, 100)))
  /\ output.merged[1].quantity = 2
  /\ DEq(output.merged[1].confidence, DMul(ToDouble(Dec(92, 100)), ToDouble(Dec(95, 100))))

\* C14: an item in a group of size 1 comes out with the name, price,
\* quantity and confidence it went in with.
C14_SingletonUnchanged ==
  \A k \in 1..Len(output.merged) :
    Len(classified[k]) = 1 =>
      /\ output.merged[k].name = input.items[classified[k][1]].name
      /\ DEq(output.merged[k].price, ToDouble(input.items[classified[k][1]].price))
      /\ output.merged[k].quantity = input.items[classified[k][1]].quantity
      /\ DEq(output.merged[k].confidence, ToDouble(input.items[classified[k][1]].confidence))

----------------------------------------------------------------------------
(* Specification SpecName: isValidItemName called once on a name: a        *)
(* keyword of the denylist in some letter case, or another name.           *)

toUpperCase(s) == join([i \in 1..Len(s) |-> UpperCh(Ch(s, i))])

\* every second letter in upper case
AlternateCase(s) ==
  join([i \in 1..Len(s) |-> IF i % 2 = 0 THEN UpperCh(Ch(s, i)) ELSE Ch(s, i)])

OtherNames ==
  {"123 Main St", "Main St 123", "Main 123", "St 42", "Chicken Wings", "2 Chicken Wings",
   "Totals", "Tax Free Tea", "Order #12", "Table 5", "Wings", "", "a", "12.50", "-- --",
   " total ", "Street Tacos", "42 Wings"}

NameInputs ==
  invalidWords
  \cup {toUpperCase(w) : w \in invalidWords}
  \cup {TitleCase(w) : w \in invalidWords}
  \cup {AlternateCase(w) : w \in invalidWords}
  \cup OtherNames

InitName ==
  /\ pc = "start"
  /\ input \in NameInputs
  /\ output = NoOutput
  /\ classified = <<>>

CallIsValidItemName ==
  /\ pc = "start"
  /\ output' = isValidItemName(input)
  /\ pc' = "done"
  /\ UNCHANGED <<input, classified>>

NextName == CallIsValidItemName

SpecName == InitName /\ [][NextName]_vars

\* C16: every keyword of the denylist is rejected in any letter case,
\* '123 Main St' and 'Main St 123' are rejected, and 'Chicken Wings', the
\* name left of '2 Chicken Wings' once its quantity is stripped, is accepted.
C16_DenylistAndAddresses ==
  pc = "done" =>
    /\ (toLowerCase(input) \in invalidWords => output = FALSE)
    /\ (input = "123 Main St" => output = FALSE)
    /\ (input = "Main St 123" => output = FALSE)
    /\ (input = removeQuantityFromName("2 Chicken Wings", extractQuantity("2 Chicken Wings"))
          => input = "Chicken Wings" /\ output = TRUE)

----------------------------------------------------------------------------
(* Specification SpecDotted: extractItems called once on a single line in  *)
(* dotted layout: a name, a run of at least 3 filler characters and a      *)
(* price (input.value is the amount the price text stands for).            *)

DottedNames ==
  {"CHICKEN WINGS", "Cheese Burger", "soda", "FRENCH FRIES", "2x Wings", "@2 Wings",
   "Total", "12", "x"}

DottedFillers == {"...", "..............", "---", "   ", "_ _ _", " . . . "}

DottedPrices ==
  { [text |-> "$24.00", value |-> Dec(2400, 100)],
    [text |-> "24.00", value |-> Dec(2400, 100)],
    [text |-> "$15.50", value |-> Dec(1550, 100)],
    [text |-> "$1,234.56", value |-> Dec(123456, 100)],
    [text |-> "$24", value |-> Dec(24, 1)],
    [text |-> "$6", value |-> Dec(6, 1)],
    [text |-> "$0.00", value |-> Zero] }

DottedInputs ==
  { [name |-> n, price |-> p.text, value |-> p.value, line |-> n \o f \o p.text] :
      <<n, f, p>> \in DottedNames \X DottedFillers \X DottedPrices }

InitDotted ==
  /\ pc = "start"
  /\ input \in DottedInputs
  /\ output = NoOutput
  /\ classified = <<>>

CallExtractItems ==
  /\ pc = "start"
  /\ output' = extractItems(<<input.line>>)
  /\ pc' = "done"
  /\ UNCHANGED <<input, classified>>

NextDotted == CallExtractItems

SpecDotted == InitDotted /\ [][NextDotted]_vars

\* a name that opens with a digit, an @ or qty carries a quantity indicator
HasQuantityIndicator(name) ==
  name # "" /\ (Head(name) \in DigitChars \cup {"@"} \/ toLowerCase(SubSeq(name, 1, 3)) = "qty")

\* C19: a line in dotted layout whose name passes name validation gives
\* one item with the parsed price and confidence 0.92, and, when the name
\* has no quantity indicator, with quantity 1 and the name in title case.
C19_DottedItem ==
  (pc = "done" /\ isValidItemName(input.name)) =>
    /\ Len(output) = 1
    /\ output[1].price = input.value
    /\ output[1].confidence = Dec(92, 100)
    /\ (~HasQuantityIndicator(input.name) =>
          /\ output[1].quantity = 1
          /\ output[1].name = TitleCase(toLowerCase(input.name)))

----------------------------------------------------------------------------
(* Specification SpecSession: two tabs of one browser work on the session  *)
(* that createSession has stored in localStorage. Each tab runs its        *)
(* handlers to completion on its own thread; the storage is shared, so the *)
(* getItem and setItem calls of one tab fall between those of the other.   *)
(* pc[tab] is the position of the tab's call, input[tab] its local         *)
(* variables, output the browser (storage: the sessions parsed from the    *)
(* item stored under STORAGE_KEY, clock: Date.now()), and classified the   *)
(* history of the saves: how many there were, and for the last one which   *)
(* save the saved session had been read after and which save it replaced.  *)
(* Emoji are written by name: "house" for the host's, "bust" for the       *)
(* default one. broadcastSync only makes the other tabs read the storage.  *)

MaxCalls == 2

MaxClock == 2

SESSION_TTL == 24 * 60 * 60 * 1000

Null == [null |-> TRUE]

Tabs == {"tabA", "tabB"}

HostId == "host"

\* the code and the user each tab calls joinSession and leaveSession with
CodeOf(tab) == IF tab = "tabA" THEN "SPLT42" ELSE "splt42"

UserOf(tab) ==
  IF tab = "tabA" THEN [id |-> "alice", name |-> "Alice", emoji |-> ""]
  ELSE [id |-> "bob", name |-> "Bob", emoji |-> "smile"]

getAllSessions(storage) == storage

getSession(storage, code) ==
  IF toUpperCase(code) \in DOMAIN getAllSessions(storage)
  THEN getAllSessions(storage)[toUpperCase(code)]
  ELSE Null

IndexOfParticipant(participants, userId) ==
  IF \E i \in DOMAIN participants : participants[i].id = userId
  THEN CHOOSE i \in DOMAIN participants :
         /\ participants[i].id = userId
         /\ \A j \in 1..(i - 1) : participants[j].id # userId
  ELSE 0

\* joinSession between getSession and saveSession
Joined(session, user, time) ==
  IF IndexOfParticipant(session.participants, user.id) > 0
  THEN [session EXCEPT !.participants[IndexOfParticipant(session.participants, user.id)] =
          [id |-> user.id, name |-> user.name, emoji |-> user.emoji,
           joinedAt |-> @.joinedAt, lastSeenAt |-> time]]
  ELSE [session EXCEPT !.participants =
          Append(@, [id |-> user.id, name |-> user.name,
                     emoji |-> IF user.emoji = "" THEN "bust" ELSE user.emoji,
                     joinedAt |-> time, lastSeenAt |-> time])]

WithoutParticipant(session, userId) ==
  [session EXCEPT
     !.participants = SelectSeq(@, LAMBDA p : p.id # userId),
     !.selections = SelectSeq(@, LAMBDA s : s.participantId # userId)]

Reassigned(session, userId) ==
  IF session.hostId = userId /\ Len(session.participants) > 0
  THEN [session EXCEPT !.hostId = session.participants[1].id]
  ELSE IF Len(session.participants) = 0
  THEN [session EXCEPT !.status = "closed"]
  ELSE session

LeftKeepingHost(session, userId) ==
  IF Len(WithoutParticipant(session, userId).participants) = 0
  THEN [WithoutParticipant(session, userId) EXCEPT !.status = "closed"]
  ELSE WithoutParticipant(session, userId)

\* leaveSession between getSession and saveSession
Left(session, userId) == Reassigned(WithoutParticipant(session, userId), userId)

\* saveSession: the storage afterwards (JSON keeps no NaN: it is stored as null)
JsonSelection(selection) ==
  [selection EXCEPT !.value = IF @ = NaN THEN Null ELSE @]

JsonSession(session) ==
  [session EXCEPT !.selections = [i \in DOMAIN @ |-> JsonSelection(@[i])]]

Stamped(session, time) == [session EXCEPT !.lastModified = time]

\* sessions after sessions[session.id] = session
WithSession(sessions, session) ==
  [code \in DOMAIN sessions \cup {session.id} |->
     IF code = session.id THEN session ELSE sessions[code]]

saveSession(storage, time, session) ==
  WithSession(getAllSessions(storage), JsonSession(Stamped(session, time)))

\* a handler that ends with saveSession(session); return session
Saved(storage, time, session) ==
  [storage |-> saveSession(storage, time, session),
   result |-> Returned(Stamped(session, time))]

\* a handler that ends without a save
Unsaved(storage, result) == [storage |-> storage, result |-> result]

joinSessionNoClosedCheck(storage, time, code, user) ==
  IF getSession(storage, code) = Null THEN Unsaved(storage, Threw("Session not found"))
  ELSE IF getSession(storage, code).expiresAt < time
  THEN Unsaved(storage, Threw("Session has expired"))
  ELSE Saved(storage, time, Joined(getSession(storage, code), user, time))

joinSession(storage, time, code, user) ==
  IF getSession(storage, code) = Null THEN Unsaved(storage, Threw("Session not found"))
  ELSE IF getSession(storage, code).expiresAt < time
  THEN Unsaved(storage, Threw("Session has expired"))
  ELSE IF getSession(storage, code).status = "closed"
  THEN Unsaved(storage, Threw("Session is closed"))
  ELSE Saved(storage, time, Joined(getSession(storage, code), user, time))

leaveSession(storage, time, sessionId, userId) ==
  IF getSession(storage, sessionId) = Null THEN Unsaved(storage, Returned(Null))
  ELSE Saved(storage, time, Left(getSession(storage, sessionId), userId))

EmptyStorage == [code \in {} |-> Null]

CleanupAge == 60 * 60 * 1000

IsOldUnlessEmpty(session, currentTime) ==
  \/ session.expiresAt < currentTime
  \/ session.status = "closed" /\ session.lastModified < currentTime - CleanupAge

\* expireOldSessions: the test that removes a session
IsOld(session, currentTime) ==
  \/ session.expiresAt < currentTime
  \/ session.status = "closed" /\ session.lastModified < currentTime - CleanupAge
  \/ Len(session.participants) = 0 /\ session.lastModified < currentTime - CleanupAge

OldCodes(sessions, currentTime) ==
  {code \in DOMAIN sessions : IsOld(sessions[code], currentTime)}

Without(sessions, codes) == [code \in DOMAIN sessions \ codes |-> sessions[code]]

expireOldSessions(storage, time) ==
  [storage |-> Without(getAllSessions(storage), OldCodes(getAllSessions(storage), time)),
   result |-> Returned(Cardinality(OldCodes(getAllSessions(storage), time)))]

\* the session object createSession builds
NewSession(sessionId, hostId, currentTime) ==
  [id |-> sessionId, hostId |-> hostId, status |-> "lobby",
   createdAt |-> currentTime, expiresAt |-> currentTime + SESSION_TTL,
   lastModified |-> currentTime,
   receipt |-> [imageUrl |-> Null, items |-> <<>>, tax |-> 0, tip |-> 0, total |-> 0],
   participants |-> <<>>, selections |-> <<>>]

\* createSession from saveSession(session) on
SavedAndJoined(storage, time, session) ==
  [storage |-> joinSession(saveSession(storage, time, session), time, session.id,
                           [id |-> session.hostId, name |-> "Host", emoji |-> "house"]).storage,
   result |-> Returned(Stamped(session, time))]

\* createSession(hostId), sessionId being the code generateRoomCode gives in
\* the call that finds no session stored under it
createSession(storage, time, sessionId, hostId) ==
  SavedAndJoined(expireOldSessions(storage, time).storage, time,
                 NewSession(sessionId, hostId, time))

IsParticipantOf(session, userId) == IndexOfParticipant(session.participants, userId) > 0

HasItem(session, itemId) ==
  \E i \in DOMAIN session.receipt.items : session.receipt.items[i].id = itemId

validTypes == {"solo", "even", "percentage", "units"}

\* value < bound and value > bound on a number that may be NaN
Below(value, bound) == value # Null /\ IsNum(value) /\ Lt(value, Dec(bound, 1))
Above(value, bound) == value # Null /\ IsNum(value) /\ Lt(Dec(bound, 1), value)

SelectedKeepOthers(selections, userId, itemId, splitType, value, time) ==
  Append(SelectSeq(selections,
                   LAMBDA s : ~(s.participantId = userId /\ s.itemId = itemId)),
         [participantId |-> userId, itemId |-> itemId, splitType |-> splitType,
          value |-> IF splitType = "solo" THEN Null ELSE value, selectedAt |-> time])

\* selectItem: the selections after the caller's selection is put in
Selected(selections, userId, itemId, splitType, value, time) ==
  IF splitType = "solo"
  THEN Append(SelectSeq(SelectSeq(selections,
                                  LAMBDA s : ~(s.participantId = userId /\ s.itemId = itemId)),
                        LAMBDA s : s.itemId # itemId),
              [participantId |-> userId, itemId |-> itemId, splitType |-> "solo",
               value |-> Null, selectedAt |-> time])
  ELSE Append(SelectSeq(selections,
                        LAMBDA s : ~(s.participantId = userId /\ s.itemId = itemId)),
              [participantId |-> userId, itemId |-> itemId, splitType |-> splitType,
               value |-> value, selectedAt |-> time])

Selecting(session) ==
  IF session.status = "lobby" THEN [session EXCEPT !.status = "selecting"] ELSE session

SelectInAppending(storage, time, session, userId, itemId, splitType, value) ==
  IF ~IsParticipantOf(session, userId)
  THEN Unsaved(storage, Threw("Participant not found in session"))
  ELSE IF ~HasItem(session, itemId)
  THEN Unsaved(storage, Threw("Item not found in receipt"))
  ELSE IF splitType \notin validTypes
  THEN Unsaved(storage, Threw("Invalid split type: " \o splitType))
  ELSE IF splitType = "percentage" /\ (value = Null \/ Below(value, 0) \/ Above(value, 100))
  THEN Unsaved(storage, Threw("Percentage must be between 0 and 100"))
  ELSE IF splitType = "units" /\ (value = Null \/ Below(value, 0))
  THEN Unsaved(storage, Threw("Units must be non-negative"))
  ELSE Saved(storage, time,
             Selecting([session EXCEPT !.selections =
                          Append(@, [participantId |-> userId, itemId |-> itemId,
                                     splitType |-> splitType, value |-> value,
                                     selectedAt |-> time])]))

\* selectItem once the session is found
SelectIn(storage, time, session, userId, itemId, splitType, value) ==
  IF ~IsParticipantOf(session, userId)
  THEN Unsaved(storage, Threw("Participant not found in session"))
  ELSE IF ~HasItem(session, itemId)
  THEN Unsaved(storage, Threw("Item not found in receipt"))
  ELSE IF splitType \notin validTypes
  THEN Unsaved(storage, Threw("Invalid split type: " \o splitType))
  ELSE IF splitType = "percentage" /\ (value = Null \/ Below(value, 0) \/ Above(value, 100))
  THEN Unsaved(storage, Threw("Percentage must be between 0 and 100"))
  ELSE IF splitType = "units" /\ (value = Null \/ Below(value, 0))
  THEN Unsaved(storage, Threw("Units must be non-negative"))
  ELSE Saved(storage, time,
             Selecting([session EXCEPT !.selections =
                          Selected(@, userId, itemId, splitType, value, time)]))

selectItem(storage, time, sessionId, userId, itemId, splitType, value) ==
  IF getSession(storage, sessionId) = Null THEN Unsaved(storage, Threw("Session not found"))
  ELSE SelectIn(storage, time, getSession(storage, sessionId), userId, itemId, splitType, value)

deselectItem(storage, time, sessionId, userId, itemId) ==
  IF getSession(storage, sessionId) = Null THEN Unsaved(storage, Threw("Session not found"))
  ELSE Saved(storage, time,
             [getSession(storage, sessionId) EXCEPT !.selections =
                SelectSeq(@, LAMBDA s : ~(s.participantId = userId /\ s.itemId = itemId))])

RECURSIVE ItemsTotal(_)
ItemsTotal(items) ==
  IF items = <<>> THEN 0
  ELSE items[1].price * items[1].quantity + ItemsTotal(Tail(items))

WithItems(session, items) ==
  [session EXCEPT !.receipt.items = items, !.receipt.total = ItemsTotal(items)]

\* generateId(): the clock, and random, the digits that
\* Math.random().toString(36).substr(2, 9) gives
generateId(time, random) == ToString(time) \o "_" \o random

\* a value that is null or the empty string (TLC compares a string with a
\* record through their texts only)
IsBlank(value) == ToString(value) \in {ToString(""), ToString(Null)}

\* object[field] || otherwise, for a field that holds a string when it is
\* there
TextOr(object, field, otherwise) ==
  IF field \notin DOMAIN object \/ IsBlank(object[field]) THEN otherwise
  ELSE object[field]

\* parseFloat(object[field]) || otherwise and parseInt(object[field]) ||
\* otherwise, for a field that holds a whole number when it is there
NumberOr(object, field, otherwise) ==
  IF field \notin DOMAIN object \/ object[field] = 0 THEN otherwise ELSE object[field]

\* the item as setReceipt and addReceiptItem store it: five fields, each
\* with its default, and no other
NewItem(item, time, random) ==
  [id |-> TextOr(item, "id", generateId(time, random)),
   name |-> TextOr(item, "name", "Unknown Item"),
   price |-> NumberOr(item, "price", 0),
   quantity |-> NumberOr(item, "quantity", 1),
   category |-> TextOr(item, "category", "other")]

\* addReceiptItem; random is what Math.random gives generateId in this call
addReceiptItem(storage, time, sessionId, item, random) ==
  IF getSession(storage, sessionId) = Null THEN Unsaved(storage, Threw("Session not found"))
  ELSE Saved(storage, time,
             WithItems(getSession(storage, sessionId),
                       Append(getSession(storage, sessionId).receipt.items,
                              NewItem(item, time, random))))

\* (receipt.items || []).map(...); randoms[i] is what Math.random gives
\* generateId for item i
itemsWithIds(receipt, time, randoms) ==
  IF "items" \notin DOMAIN receipt THEN <<>>
  ELSE [i \in DOMAIN receipt.items |-> NewItem(receipt.items[i], time, randoms[i])]

setReceipt(storage, time, sessionId, receipt, randoms) ==
  IF getSession(storage, sessionId) = Null THEN Unsaved(storage, Threw("Session not found"))
  ELSE Saved(storage, time,
             [getSession(storage, sessionId) EXCEPT
                !.receipt = [imageUrl |-> TextOr(receipt, "imageUrl", Null),
                             items |-> itemsWithIds(receipt, time, randoms),
                             tax |-> NumberOr(receipt, "tax", 0),
                             tip |-> NumberOr(receipt, "tip", 0),
                             total |-> NumberOr(receipt, "total", 0)],
                !.status = "selecting"])

validStatuses == {"lobby", "selecting", "reviewing", "closed"}

setSessionStatus(storage, time, sessionId, newStatus) ==
  IF newStatus \notin validStatuses
  THEN Unsaved(storage, Threw("Invalid status: " \o newStatus))
  ELSE IF getSession(storage, sessionId) = Null
  THEN Unsaved(storage, Threw("Session not found"))
  ELSE Saved(storage, time, [getSession(storage, sessionId) EXCEPT !.status = newStatus])

deleteSession(storage, sessionId, userId) ==
  IF getSession(storage, sessionId) = Null THEN Unsaved(storage, Returned(FALSE))
  ELSE IF getSession(storage, sessionId).hostId # userId
  THEN Unsaved(storage, Threw("Only host can delete session"))
  ELSE [storage |-> Without(getAllSessions(storage), {sessionId}), result |-> Returned(TRUE)]

Idle(calls, last) ==
  [calls |-> calls, last |-> last, op |-> "none", session |-> Null, sessions |-> Null, read |-> 0]

InitSession ==
  /\ pc = [tab \in Tabs |-> "idle"]
  /\ input = [tab \in Tabs |-> Idle(0, "none")]
  /\ output = [storage |-> createSession(EmptyStorage, 0, "SPLT42", HostId).storage,
               clock |-> 0]
  /\ classified = [saves |-> 0, lastSave |-> [tab |-> "none", read |-> 0, replaced |-> 0]]

\* the handler throws: the call ends without a save
Thrown(tab) ==
  /\ input' = [input EXCEPT ![tab].calls = @ + 1]
  /\ UNCHANGED <<pc, output, classified>>

\* the handler has read and changed its session and goes on to saveSession
ToSave(tab, op, session) ==
  /\ input' = [input EXCEPT ![tab] =
       [calls |-> @.calls + 1, last |-> @.last, op |-> op, session |-> session,
        sessions |-> Null, read |-> classified.saves]]
  /\ pc' = [pc EXCEPT ![tab] = "save"]
  /\ UNCHANGED <<output, classified>>

JoinRead(tab, session) ==
  IF session = Null THEN Thrown(tab)
  ELSE IF session.expiresAt < output.clock THEN Thrown(tab)
  ELSE IF session.status = "closed" THEN Thrown(tab)
  ELSE ToSave(tab, "join", Joined(session, UserOf(tab), output.clock))

JoinSession(tab) ==
  /\ pc[tab] = "idle"
  /\ input[tab].calls < MaxCalls
  /\ JoinRead(tab, getSession(output.storage, CodeOf(tab)))

LeaveRead(tab, session) ==
  IF session = Null THEN Thrown(tab)
  ELSE ToSave(tab, "leave", Left(session, UserOf(tab).id))

LeaveSession(tab) ==
  /\ pc[tab] = "idle"
  /\ input[tab].calls < MaxCalls
  /\ LeaveRead(tab, getSession(output.storage, CodeOf(tab)))

\* saveSession up to the call of saveAllSessions
SaveSessionRead(tab) ==
  /\ pc[tab] = "save"
  /\ input' = [input EXCEPT
       ![tab].session = Stamped(@, output.clock),
       ![tab].sessions = WithSession(getAllSessions(output.storage),
                                     Stamped(input[tab].session, output.clock))]
  /\ pc' = [pc EXCEPT ![tab] = "write"]
  /\ UNCHANGED <<output, classified>>

\* saveAllSessions, and the return of saveSession and of the handler
SaveSessionWrite(tab) ==
  /\ pc[tab] = "write"
  /\ output' = [output EXCEPT !.storage = input[tab].sessions]
  /\ classified' = [saves |-> classified.saves + 1,
                    lastSave |-> [tab |-> tab, read |-> input[tab].read,
                                  replaced |-> classified.saves]]
  /\ input' = [input EXCEPT ![tab] = Idle(@.calls, @.op)]
  /\ pc' = [pc EXCEPT ![tab] = "idle"]

Tick ==
  /\ output.clock < MaxClock
  /\ output' = [output EXCEPT !.clock = @ + 1]
  /\ UNCHANGED <<pc, input, classified>>

NextSession ==
  \/ \E tab \in Tabs : JoinSession(tab)
  \/ \E tab \in Tabs : LeaveSession(tab)
  \/ \E tab \in Tabs : SaveSessionRead(tab)
  \/ \E tab \in Tabs : SaveSessionWrite(tab)
  \/ Tick

SpecSession == InitSession /\ [][NextSession]_vars

StoredSession == getSession(output.storage, "SPLT42")

IsParticipant(userId) == IndexOfParticipant(StoredSession.participants, userId) > 0

\* C20: when the calls of the two tabs interleave no update is lost: once
\* both tabs have returned, the stored session has the change each tab made
\* last (its user is a participant after joinSession, is none after
\* leaveSession), and no save replaces a version saved after the session it
\* saves had been read.
C20_NoLostUpdate ==
  /\ (\A tab \in Tabs : pc[tab] = "idle") =>
       \A tab \in Tabs :
         /\ input[tab].last = "join" => IsParticipant(UserOf(tab).id)
         /\ input[tab].last = "leave" => ~IsParticipant(UserOf(tab).id)
  /\ classified.lastSave.read = classified.lastSave.replaced

----------------------------------------------------------------------------
(* Specification SpecStore: one handler called in one tab on a storage     *)
(* that earlier calls have left, after some time has passed. output is the *)
(* browser (storage, clock), the number of times the clock was moved and   *)
(* the result of the call; classified is the storage before the call.      *)

MaxPasses == 2

Room == "SPLT42"

Alice == UserOf("tabA")
Bob == UserOf("tabB")

Wings == [id |-> "i1", name |-> "Wings", price |-> 12, quantity |-> 2, category |-> "food"]
Soda == [id |-> "i2", name |-> "Soda", price |-> 3, quantity |-> 0, category |-> "other"]

Lobby == createSession(EmptyStorage, 0, Room, HostId).storage

Party ==
  joinSession(joinSession(Lobby, 1, Room, Alice).storage, 2, "splt42", Bob).storage

Menu ==
  addReceiptItem(addReceiptItem(Party, 3, Room, Wings, "4fzzzxjyl").storage,
                 4, Room, Soda, "q0a8d1").storage

Shared ==
  selectItem(selectItem(Menu, 5, Room, "alice", "i1", "even", Null).storage,
             6, Room, "bob", "i1", "even", Null).storage

Claimed ==
  selectItem(selectItem(Shared, 7, Room, "bob", "i2", "units", Dec(2, 1)).storage,
             8, Room, HostId, "i2", "percentage", Dec(50, 1)).storage

Closed == setSessionStatus(Claimed, 9, Room, "closed").storage

Deserted ==
  leaveSession(leaveSession(leaveSession(Party, 7, Room, "alice").storage,
                            8, Room, "bob").storage, 9, Room, HostId).storage

Reopened == setSessionStatus(Deserted, 10, Room, "lobby").storage

TwoRooms == createSession(Claimed, 10, "QRS789", "bob").storage

StoredStates ==
  {EmptyStorage, Lobby, Party, Menu, Shared, Claimed, Closed, Deserted, Reopened, TwoRooms}

CallCodes == {"SPLT42", "splt42", "QRS789", "NONE22"}

CallUsers ==
  {Alice, Bob, [id |-> "zed", name |-> "Zed", emoji |-> ""],
   [id |-> "alice", name |-> "Ally", emoji |-> "cat"]}

CallUserIds == {HostId, "alice", "bob", "zed"}

PassTimes == {1, CleanupAge, SESSION_TTL}

InitStore ==
  /\ pc = "ready"
  /\ input = [op |-> "none"]
  /\ output \in {[storage |-> storage, clock |-> 10, passes |-> 0, result |-> NoOutput] :
                   storage \in StoredStates}
  /\ classified = EmptyStorage

Pass ==
  /\ pc = "ready"
  /\ output.passes < MaxPasses
  /\ \E d \in PassTimes : output' = [output EXCEPT !.clock = @ + d, !.passes = @ + 1]
  /\ UNCHANGED <<pc, input, classified>>

\* the call described by call has run and left done = [storage, result]
Finish(call, done) ==
  /\ pc' = "returned"
  /\ input' = call
  /\ output' = [output EXCEPT !.storage = done.storage, !.result = done.result]
  /\ classified' = output.storage

CallJoinSession ==
  /\ pc = "ready"
  /\ \E code \in CallCodes, user \in CallUsers :
      Finish([op |-> "joinSession", code |-> code, user |-> user],
             joinSession(output.storage, output.clock, code, user))

CallLeaveSession ==
  /\ pc = "ready"
  /\ \E sessionId \in CallCodes, userId \in CallUserIds :
      Finish([op |-> "leaveSession", code |-> sessionId, userId |-> userId],
             leaveSession(output.storage, output.clock, sessionId, userId))

CallItemIds == {"i1", "i2", "i9"}

CallSplitTypes == validTypes \cup {"half"}

CallValues == {Null, NaN, Dec(-1, 1), Zero, Dec(50, 1), Dec(100, 1), Dec(101, 1)}

CallSelectItem ==
  /\ pc = "ready"
  /\ \E sessionId \in {"splt42", "NONE22"}, userId \in {HostId, "alice", "zed"},
       itemId \in CallItemIds, splitType \in CallSplitTypes, value \in CallValues :
      Finish([op |-> "selectItem", code |-> sessionId, userId |-> userId, itemId |-> itemId,
              splitType |-> splitType, value |-> value],
             selectItem(output.storage, output.clock, sessionId, userId, itemId, splitType, value))

CallDeleteSession ==
  /\ pc = "ready"
  /\ \E sessionId \in CallCodes, userId \in CallUserIds :
      Finish([op |-> "deleteSession", code |-> sessionId, userId |-> userId],
             deleteSession(output.storage, sessionId, userId))

CallExpireOldSessions ==
  /\ pc = "ready"
  /\ Finish([op |-> "expireOldSessions"], expireOldSessions(output.storage, output.clock))

\* createSession(hostId) with sessionId the room code that was generated
CallCreateSession ==
  /\ pc = "ready"
  /\ \E sessionId \in {"SPLT42", "QRS789"}, hostId \in {HostId, "bob"} :
      /\ getSession(expireOldSessions(output.storage, output.clock).storage, sessionId) = Null
      /\ Finish([op |-> "createSession", code |-> sessionId, hostId |-> hostId],
                createSession(output.storage, output.clock, sessionId, hostId))

NextStore ==
  \/ Pass
  \/ CallJoinSession
  \/ CallLeaveSession
  \/ CallSelectItem
  \/ CallDeleteSession
  \/ CallExpireOldSessions
  \/ CallCreateSession

SpecStore == InitStore /\ [][NextStore]_vars

\* the call has thrown the error with this message
Throws(message) == output.result.status = "threw" /\ output.result.value = message

\* C21: joinSession throws 'Session not found' when no session is stored
\* under the upper-cased code, else 'Session has expired' when the session's
\* expiresAt is before the current time, else 'Session is closed' when its
\* status is 'closed'; in each of these cases the storage is as before.
C21_JoinErrors ==
  (pc = "returned" /\ input.op = "joinSession") =>
    /\ toUpperCase(input.code) \notin DOMAIN classified =>
         Throws("Session not found") /\ output.storage = classified
    /\ toUpperCase(input.code) \in DOMAIN classified =>
         /\ classified[toUpperCase(input.code)].expiresAt < output.clock =>
              Throws("Session has expired") /\ output.storage = classified
         /\ (/\ classified[toUpperCase(input.code)].expiresAt >= output.clock
             /\ classified[toUpperCase(input.code)].status = "closed") =>
              Throws("Session is closed") /\ output.storage = classified

C21_Witness ==
  /\ pc = "returned" /\ input.op = "joinSession"
  /\ input.code = "splt42"
  /\ classified = Closed
  /\ Throws("Session is closed")

\* the session stored under the code of the call, before and after the call
SessionBefore == classified[toUpperCase(input.code)]
SessionAfter == output.storage[toUpperCase(input.code)]

\* C22: leaveSession on a stored session removes the user from the
\* participants and every selection of the user and keeps the other
\* participants and selections; a host who leaves is followed by the first
\* remaining participant; with no participant left the status is 'closed'.
\* For an unknown session it returns null and the storage is as before.
C22_Leave ==
  (pc = "returned" /\ input.op = "leaveSession") =>
    /\ toUpperCase(input.code) \notin DOMAIN classified =>
         output.result = Returned(Null) /\ output.storage = classified
    /\ toUpperCase(input.code) \in DOMAIN classified =>
         /\ SessionAfter.participants =
              SelectSeq(SessionBefore.participants, LAMBDA p : p.id # input.userId)
         /\ SessionAfter.selections =
              SelectSeq(SessionBefore.selections, LAMBDA x : x.participantId # input.userId)
         /\ (SessionBefore.hostId = input.userId /\ Len(SessionAfter.participants) > 0) =>
              SessionAfter.hostId = SessionAfter.participants[1].id
         /\ Len(SessionAfter.participants) = 0 => SessionAfter.status = "closed"

C22_Witness ==
  /\ pc = "returned" /\ input.op = "leaveSession"
  /\ classified = Claimed
  /\ input.userId = HostId
  /\ SessionAfter.hostId = "alice"
  /\ Len(SessionAfter.selections) = 3

\* C23: after a successful selectItem with splitType 'solo' the only
\* selection stored for the item is the caller's, with splitType 'solo' and
\* value null, and the selections of all other items are as before.
C23_SoloTakesItem ==
  (/\ pc = "returned" /\ input.op = "selectItem"
   /\ input.splitType = "solo" /\ output.result.status = "returned") =>
    /\ \E i \in DOMAIN SessionAfter.selections :
         /\ SessionAfter.selections[i].itemId = input.itemId
         /\ SessionAfter.selections[i].participantId = input.userId
         /\ SessionAfter.selections[i].splitType = "solo"
         /\ SessionAfter.selections[i].value = Null
         /\ \A j \in DOMAIN SessionAfter.selections :
              SessionAfter.selections[j].itemId = input.itemId => j = i
    /\ SelectSeq(SessionAfter.selections, LAMBDA x : x.itemId # input.itemId) =
         SelectSeq(SessionBefore.selections, LAMBDA x : x.itemId # input.itemId)

C23_Witness ==
  /\ pc = "returned" /\ input.op = "selectItem"
  /\ input.splitType = "solo" /\ output.result.status = "returned"
  /\ classified = Claimed
  /\ input.userId = HostId /\ input.itemId = "i1"
  /\ Len(SessionAfter.selections) = 3

\* a number between 0 and 100, the ends included
InPercentRange(value) ==
  value # Null /\ IsNum(value) /\ Leq(Zero, value) /\ Leq(value, Dec(100, 1))

IsNegativeNumber(value) == value # Null /\ IsNum(value) /\ Lt(value, Zero)

\* the cases in which selectItem is to throw
MustRefuseSelect ==
  \/ toUpperCase(input.code) \notin DOMAIN classified
  \/ ~IsParticipantOf(SessionBefore, input.userId)
  \/ ~HasItem(SessionBefore, input.itemId)
  \/ input.splitType \notin {"solo", "even", "percentage", "units"}
  \/ input.splitType = "percentage" /\ ~InPercentRange(input.value)
  \/ input.splitType = "units" /\ (input.value = Null \/ IsNegativeNumber(input.value))

\* C30: selectItem throws and leaves the storage as it was when the session
\* is unknown, the user is no participant, the item is not in the receipt,
\* the split type is none of solo, even, percentage, units, a percentage is
\* null or outside [0,100], or a number of units is null or negative; in
\* every other case it returns and a session in status 'lobby' is stored
\* with status 'selecting'.
C30_SelectErrors ==
  (pc = "returned" /\ input.op = "selectItem") =>
    IF MustRefuseSelect
    THEN output.result.status = "threw" /\ output.storage = classified
    ELSE /\ output.result.status = "returned"
         /\ SessionBefore.status = "lobby" => SessionAfter.status = "selecting"

\* C24: deleteSession by a user who is not the host throws 'Only host can
\* delete session' and the storage is as before; for an unknown session it
\* returns false; and whenever it returns true no session is stored any
\* more under the code as getSession reads it (upper-cased).
C24_DeleteByHost ==
  (pc = "returned" /\ input.op = "deleteSession") =>
    /\ toUpperCase(input.code) \notin DOMAIN classified =>
         output.result.status = "returned" /\ output.result.value = FALSE
    /\ (/\ toUpperCase(input.code) \in DOMAIN classified
        /\ classified[toUpperCase(input.code)].hostId # input.userId) =>
         Throws("Only host can delete session") /\ output.storage = classified
    /\ (output.result.status = "returned" /\ output.result.value = TRUE) =>
         getSession(output.storage, input.code) = Null

\* the sessions the clean-up is to remove
IsDue(session) ==
  \/ session.expiresAt < output.clock
  \/ session.status = "closed" /\ output.clock - session.lastModified > 60 * 60 * 1000
  \/ session.participants = <<>> /\ output.clock - session.lastModified > 60 * 60 * 1000

\* C28: expireOldSessions removes exactly the sessions whose expiresAt is
\* before the current time, or that are closed or without participants and
\* were last modified more than an hour ago; it returns their number and
\* every other session is stored as before.
C28_ExpireExactly ==
  (pc = "returned" /\ input.op = "expireOldSessions") =>
    /\ DOMAIN output.storage = {code \in DOMAIN classified : ~IsDue(classified[code])}
    /\ \A code \in DOMAIN output.storage : output.storage[code] = classified[code]
    /\ output.result.status = "returned"
    /\ output.result.value = Cardinality({code \in DOMAIN classified : IsDue(classified[code])})

C28_Witness ==
  /\ pc = "returned" /\ input.op = "expireOldSessions"
  /\ classified = TwoRooms
  /\ DOMAIN output.storage = {"QRS789"}
  /\ output.result.value = 1

\* a session as createSession is to leave it: in the lobby, of this host,
\* without selections and with the host as its only participant
IsFreshSession(session, hostId) ==
  /\ session.status = "lobby"
  /\ session.hostId = hostId
  /\ session.expiresAt = session.createdAt + SESSION_TTL
  /\ session.selections = <<>>
  /\ Len(session.participants) = 1
  /\ session.participants[1].id = hostId

\* C29: after createSession(hostId) the session stored under the new room
\* code is in the lobby, of this host, expires SESSION_TTL after its
\* creation, has no selections and the host as its only participant, and
\* the session returned to the caller is in that same state.
C29_CreatedWithHost ==
  (pc = "returned" /\ input.op = "createSession") =>
    /\ output.result.status = "returned"
    /\ IsFreshSession(SessionAfter, input.hostId)
    /\ IsFreshSession(output.result.value, input.hostId)

----------------------------------------------------------------------------
(* Specification SpecSync: the pollers that startSync has set up in one    *)
(* tab, while another tab saves the session. output is the browser: the    *)
(* storage, the clock, the ids of the running interval timers, the number  *)
(* of sync messages the other tab has posted that have not been dispatched *)
(* yet, and the number of saves so far. input is the state of the tab: the *)
(* closure of each startSync call (code, lastModified, stopped; its        *)
(* intervalId is its place in the sequence) and activeSyncIntervals. Each  *)
(* closure also carries its history: the session last passed to the        *)
(* callback, the lastModified passed the time before, whether              *)
(* stopSync(code) has returned since it started, and whether the callback  *)
(* was invoked after that.                                                 *)

MaxPollers == 2

MaxSaves == 2

NewPoller(code) ==
  [code |-> code, lastModified |-> 0, stopped |-> FALSE,
   delivered |-> Null, before |-> -1, retired |-> FALSE, late |-> FALSE]

\* callback(session, null) or callback(null, 'Session not found')
Called(poller, session) ==
  [poller EXCEPT !.delivered = session, !.late = @ \/ poller.retired]

PolledSession(poller, session) ==
  IF session = Null THEN Called(poller, Null)
  ELSE IF session.lastModified > poller.lastModified
  THEN [Called(poller, session) EXCEPT !.before = poller.lastModified,
                                       !.lastModified = session.lastModified]
  ELSE poller

pollOnSame(poller, storage) ==
  IF poller.stopped THEN poller
  ELSE IF getSession(storage, poller.code).lastModified >= poller.lastModified
  THEN [Called(poller, getSession(storage, poller.code)) EXCEPT
          !.before = poller.lastModified,
          !.lastModified = getSession(storage, poller.code).lastModified]
  ELSE poller

\* poll() of the closure
poll(poller, storage) ==
  IF poller.stopped THEN poller
  ELSE PolledSession(poller, getSession(storage, poller.code))

InitSync ==
  /\ pc = "idle"
  /\ input = [pollers |-> <<>>, activeSyncIntervals |-> [code \in {} |-> 0]]
  /\ output = [storage |-> createSession(EmptyStorage, 1, Room, HostId).storage,
               clock |-> 1, timers |-> {}, inbox |-> 0, saves |-> 0]
  /\ classified = <<>>

\* startSync(code, callback)
StartSync ==
  /\ Len(input.pollers) < MaxPollers
  /\ input' = [pollers |-> Append(input.pollers, poll(NewPoller(Room), output.storage)),
               activeSyncIntervals |->
                 [code \in DOMAIN input.activeSyncIntervals \cup {Room} |->
                    IF code = Room THEN Len(input.pollers) + 1
                    ELSE input.activeSyncIntervals[code]]]
  /\ output' = [output EXCEPT !.timers = @ \cup {Len(input.pollers) + 1}]
  /\ UNCHANGED <<pc, classified>>

\* the interval timer of a closure fires
IntervalPoll(id) ==
  /\ id \in output.timers
  /\ input' = [input EXCEPT !.pollers[id] = poll(@, output.storage)]
  /\ UNCHANGED <<pc, output, classified>>

\* a sync message is dispatched to the message handlers of the closures
Message ==
  /\ output.inbox > 0
  /\ output' = [output EXCEPT !.inbox = @ - 1]
  /\ input' = [input EXCEPT !.pollers =
       [id \in DOMAIN @ |-> IF @[id].code = Room THEN poll(@[id], output.storage) ELSE @[id]]]
  /\ UNCHANGED <<pc, classified>>

\* the other tab saves the session (setSessionStatus) and posts a sync message
OtherTabSaves ==
  /\ output.saves < MaxSaves
  /\ \E status \in {"selecting", "reviewing"} :
       output' = [output EXCEPT
         !.storage = setSessionStatus(@, output.clock, Room, status).storage,
         !.inbox = @ + 1, !.saves = @ + 1]
  /\ UNCHANGED <<pc, input, classified>>

\* stopSync(code)
StopSync ==
  /\ input.pollers # <<>>
  /\ input' = [pollers |-> [id \in DOMAIN input.pollers |->
                              IF input.pollers[id].code = Room
                              THEN [input.pollers[id] EXCEPT !.retired = TRUE]
                              ELSE input.pollers[id]],
               activeSyncIntervals |->
                 [code \in DOMAIN input.activeSyncIntervals \ {Room} |->
                    input.activeSyncIntervals[code]]]
  /\ output' = [output EXCEPT !.timers =
       IF Room \in DOMAIN input.activeSyncIntervals
       THEN @ \ {input.activeSyncIntervals[Room]} ELSE @]
  /\ UNCHANGED <<pc, classified>>

\* the stop function startSync returned, called for the first time or
\* again: it deletes the entry of its code, whichever closure stored it
StopFunction(id) ==
  /\ id \in DOMAIN input.pollers
  /\ input' = [pollers |-> [input.pollers EXCEPT ![id].stopped = TRUE],
               activeSyncIntervals |->
                 [code \in DOMAIN input.activeSyncIntervals \ {input.pollers[id].code} |->
                    input.activeSyncIntervals[code]]]
  /\ output' = [output EXCEPT !.timers = @ \ {id}]
  /\ UNCHANGED <<pc, classified>>

NextSync ==
  \/ StartSync
  \/ \E id \in 1..MaxPollers : IntervalPoll(id)
  \/ Message
  \/ OtherTabSaves
  \/ StopSync
  \/ \E id \in 1..MaxPollers : StopFunction(id)
  \/ Tick

SpecSync == InitSync /\ [][NextSync]_vars

\* the timers keep firing and posted messages are dispatched
SpecSyncLive ==
  /\ SpecSync
  /\ \A id \in 1..MaxPollers : WF_vars(IntervalPoll(id))
  /\ WF_vars(Message)

\* the closure polls on: it is not stopped and its interval timer runs
Polling(id) ==
  /\ id \in DOMAIN input.pollers
  /\ ~input.pollers[id].stopped
  /\ id \in output.timers

\* C25: while a poller is not stopped and its polls keep being scheduled,
\* every saved version of the session is followed by a callback with the
\* session as stored: whenever the session last passed to the callback is
\* not the stored one, later it is, or the poller polls no more.
C25_ChangesDelivered ==
  \A id \in 1..MaxPollers :
    (Polling(id) /\ input.pollers[id].delivered # StoredSession)
      ~> (~Polling(id) \/ input.pollers[id].delivered = StoredSession)

\* C26: the lastModified values a poller passes to its callback are strictly
\* increasing: a callback with a session comes only from a poll that found
\* lastModified above the value passed the time before.
C26_OnlyNewer ==
  \A id \in DOMAIN input.pollers :
    input.pollers[id].lastModified > input.pollers[id].before

C26_Witness ==
  \E id \in DOMAIN input.pollers :
    /\ input.pollers[id].before = 1
    /\ input.pollers[id].lastModified = 2
    /\ input.pollers[id].delivered = StoredSession
    /\ output.saves = 2

\* C27: once stopSync(code) has returned, no poller that startSync(code)
\* had set up before invokes its callback again.
C27_StoppedForGood ==
  \A id \in DOMAIN input.pollers : ~input.pollers[id].late

----------------------------------------------------------------------------
(* Specification SpecSelections: handlers called one after the other in    *)
(* one tab, starting from a storage that earlier calls have left. output   *)
(* is the storage, the clock and the number of calls made; input is the    *)
(* last call.                                                              *)

MaxSteps == 3

\* an item as the receipt parser returns it: no id, no category, its line
Tea == [name |-> "", price |-> 5, quantity |-> 1, raw |-> "Tea 5.00"]

\* what Math.random().toString(36).substr(2, 9) may give
RandomTexts == {"4fzzzxjyl", "q0a8d1"}

Bill ==
  [imageUrl |-> "", items |-> <<Wings, Soda, Tea>>, tax |-> 2, tip |-> 0, total |-> 34]

InitSelections ==
  /\ pc = "ready"
  /\ input = [op |-> "none"]
  /\ output \in {[storage |-> storage, clock |-> 10, calls |-> 0] : storage \in StoredStates}
  /\ classified = EmptyStorage

\* the call described by call has run and left done = [storage, result]
Step(call, done) ==
  /\ input' = call
  /\ output' = [output EXCEPT !.storage = done.storage, !.calls = @ + 1]
  /\ UNCHANGED <<pc, classified>>

ThenCreateSession ==
  /\ output.calls < MaxSteps
  /\ \E sessionId \in {Room, "QRS789"} :
       /\ getSession(expireOldSessions(output.storage, output.clock).storage, sessionId) = Null
       /\ Step([op |-> "createSession", code |-> sessionId, hostId |-> HostId],
               createSession(output.storage, output.clock, sessionId, HostId))

ThenJoinSession ==
  /\ output.calls < MaxSteps
  /\ Step([op |-> "joinSession", code |-> Room, user |-> Alice],
          joinSession(output.storage, output.clock, Room, Alice))

ThenLeaveSession ==
  /\ output.calls < MaxSteps
  /\ \E userId \in {HostId, "alice"} :
       Step([op |-> "leaveSession", code |-> Room, userId |-> userId],
            leaveSession(output.storage, output.clock, Room, userId))

ThenSelectItem ==
  /\ output.calls < MaxSteps
  /\ \E userId \in {HostId, "alice"}, itemId \in {"i1", "i2"},
        how \in {[type |-> "solo", value |-> Null], [type |-> "even", value |-> Null],
                   [type |-> "units", value |-> Dec(2, 1)]} :
       Step([op |-> "selectItem", code |-> Room, userId |-> userId, itemId |-> itemId,
             splitType |-> how.type, value |-> how.value],
            selectItem(output.storage, output.clock, Room, userId, itemId, how.type, how.value))

ThenDeselectItem ==
  /\ output.calls < MaxSteps
  /\ \E userId \in {HostId, "alice"}, itemId \in {"i1", "i2"} :
       Step([op |-> "deselectItem", code |-> Room, userId |-> userId, itemId |-> itemId],
            deselectItem(output.storage, output.clock, Room, userId, itemId))

ThenSetReceipt ==
  /\ output.calls < MaxSteps
  /\ \E random \in RandomTexts :
       Step([op |-> "setReceipt", code |-> Room],
            setReceipt(output.storage, output.clock, Room, Bill,
                       <<random, random, random>>))

ThenAddReceiptItem ==
  /\ output.calls < MaxSteps
  /\ \E random \in RandomTexts :
       Step([op |-> "addReceiptItem", code |-> Room],
            addReceiptItem(output.storage, output.clock, Room, Tea, random))

NextSelections ==
  \/ ThenCreateSession
  \/ ThenJoinSession
  \/ ThenLeaveSession
  \/ ThenSelectItem
  \/ ThenDeselectItem
  \/ ThenSetReceipt
  \/ ThenAddReceiptItem

SpecSelections == InitSelections /\ [][NextSelections]_vars

\* the places of the selections of the participant for the item
SelectionsOf(session, participantId, itemId) ==
  {i \in DOMAIN session.selections :
     /\ session.selections[i].participantId = participantId
     /\ session.selections[i].itemId = itemId}

\* C31: after any sequence of createSession, joinSession, leaveSession,
\* selectItem, deselectItem, setReceipt and addReceiptItem every stored
\* session holds at most one selection for each participant and item.
C31_OneSelectionPerPair ==
  \A code \in DOMAIN output.storage :
    \A i, j \in DOMAIN output.storage[code].selections :
      (/\ output.storage[code].selections[i].participantId =
            output.storage[code].selections[j].participantId
       /\ output.storage[code].selections[i].itemId =
            output.storage[code].selections[j].itemId) => i = j

\* alice, who shared i1 evenly with bob, has selected i1 again by units
C31_Witness ==
  /\ output.calls = 1
  /\ input.op = "selectItem" /\ input.userId = "alice" /\ input.itemId = "i1"
  /\ input.splitType = "units"
  /\ Room \in DOMAIN output.storage
  /\ SelectionsOf(output.storage[Room], "bob", "i1") # {}
  /\ Cardinality(SelectionsOf(output.storage[Room], "alice", "i1")) = 1
  /\ \A i \in SelectionsOf(output.storage[Room], "alice", "i1") :
       output.storage[Room].selections[i].splitType = "units"

====
